---- MODULE Spec2Model ----
(***************************************************************************)
(* Statistics / advisory / histogram engine of mock-uncountable.           *)
(*                                                                         *)
(* JavaScript values are modelled as tagged records.  A finite number is   *)
(* an exact rational p/q (q > 0, lowest terms) whose magnitude is at most  *)
(* MaxFinite, the model's stand-in for Number.MAX_VALUE: an arithmetic     *)
(* result beyond it becomes +Infinity or -Infinity, as IEEE-754 doubles    *)
(* do.  Rounding inside the finite range and the sign of zero are not      *)
(* modelled.                                                               *)
(***************************************************************************)
EXTENDS Integers, Sequences, FiniteSets, TLC

VARIABLES
    experiments,   \* the module-level dataset (data/experiments.ts)
    stats,         \* last call of computeStats / statsForField
    probe,         \* last evaluation of the high / low predicates
    advisor,       \* last call of buildAdvisorSections
    hist,          \* last call of buildHistogramData
    text,          \* last call of parseLlmSections / estimateTokens
    promptCall,    \* last call of buildLlmAdvisorPrompt
    outputStats,   \* OUTPUT_STATS, the per-output {min, max} table
    hasOpenAiKey,  \* services/openaiClient.ts: Boolean(apiKey)
    activeTab,     \* App: the tab whose component is mounted
    oa,            \* state of the mounted OptimizationAdvisor component
    mr,            \* state of the mounted MeasurementRange component
    net            \* requests to the language-model provider

appVars == <<text, promptCall, outputStats, hasOpenAiKey, activeTab, oa, mr, net>>

vars == <<experiments, stats, probe, advisor, hist, appVars>>

----------------------------------------------------------------------------
(* Bounds of the model *)

MaxFinite == 100     \* largest finite magnitude (stand-in for Number.MAX_VALUE)
MaxStatLen == 2      \* longest value list handed to computeStats
MaxRecords == 2      \* longest dataset handed to statsForField / the advisor

----------------------------------------------------------------------------
(* JavaScript values and number arithmetic *)

RECURSIVE GCD(_, _)
GCD(a, b) == IF b = 0 THEN a ELSE GCD(b, a % b)

Abs(n) == IF n < 0 THEN -n ELSE n

NaN       == [k |-> "nan",   p |-> 0, q |-> 1]
PosInf    == [k |-> "inf",   p |-> 0, q |-> 1]
NegInf    == [k |-> "ninf",  p |-> 0, q |-> 1]
Null      == [k |-> "null",  p |-> 0, q |-> 1]
Undefined == [k |-> "undef", p |-> 0, q |-> 1]

\* The double nearest to p/q (q > 0): exact inside the finite range,
\* an infinity beyond it.
Fin(p, q) ==
    IF p > MaxFinite * q THEN PosInf
    ELSE IF p < (-MaxFinite) * q THEN NegInf
    ELSE LET g == GCD(Abs(p), q)
         IN  [k |-> "num", p |-> p \div g, q |-> q \div g]

Num(n) == Fin(n, 1)

IsNum(x) == x.k = "num"

\* typeof v === 'number'
TypeofNumber(x) == x.k \in {"num", "nan", "inf", "ninf"}

\* Number.isFinite(v)
NumberIsFinite(x) == x.k = "num"

\* Number.isNaN(v): true for the number NaN only
NumberIsNaN(x) == x.k = "nan"

\* v == null (loose equality: null or undefined)
LooseNull(x) == x.k \in {"null", "undef"}

\* ToNumber, applied by the relational and arithmetic operators
ToNumber(x) ==
    IF x.k = "null" THEN Num(0)
    ELSE IF x.k = "undef" THEN NaN
    ELSE x

Sign(x) ==
    IF x.k = "inf" THEN 1
    ELSE IF x.k = "ninf" THEN -1
    ELSE IF x.p > 0 THEN 1 ELSE IF x.p < 0 THEN -1 ELSE 0

JsNeg(x) ==
    IF x.k = "nan" THEN NaN
    ELSE IF x.k = "inf" THEN NegInf
    ELSE IF x.k = "ninf" THEN PosInf
    ELSE Fin(-x.p, x.q)

\* a + b
JsAdd(a0, b0) ==
    LET a == ToNumber(a0)  b == ToNumber(b0) IN
    IF a.k = "nan" \/ b.k = "nan" THEN NaN
    ELSE IF a.k = "num" /\ b.k = "num" THEN Fin(a.p * b.q + b.p * a.q, a.q * b.q)
    ELSE IF a.k = "num" THEN b
    ELSE IF b.k = "num" THEN a
    ELSE IF a.k = b.k THEN a
    ELSE NaN

\* a - b
JsSub(a0, b0) == JsAdd(a0, JsNeg(ToNumber(b0)))

\* a * b
JsMul(a0, b0) ==
    LET a == ToNumber(a0)  b == ToNumber(b0) IN
    IF a.k = "nan" \/ b.k = "nan" THEN NaN
    ELSE IF a.k = "num" /\ b.k = "num" THEN Fin(a.p * b.p, a.q * b.q)
    ELSE IF Sign(a) * Sign(b) = 0 THEN NaN
    ELSE IF Sign(a) * Sign(b) > 0 THEN PosInf
    ELSE NegInf

\* a / b
JsDiv(a0, b0) ==
    LET a == ToNumber(a0)  b == ToNumber(b0) IN
    IF a.k = "nan" \/ b.k = "nan" THEN NaN
    ELSE IF a.k = "num" /\ b.k = "num" THEN
        IF b.p = 0 THEN
            IF a.p = 0 THEN NaN ELSE IF a.p > 0 THEN PosInf ELSE NegInf
        ELSE IF b.p > 0 THEN Fin(a.p * b.q, a.q * b.p)
        ELSE Fin(-(a.p * b.q), a.q * (-b.p))
    ELSE IF a.k = "num" THEN Num(0)
    ELSE IF b.k # "num" THEN NaN
    ELSE IF Sign(a) * (IF Sign(b) < 0 THEN -1 ELSE 1) > 0 THEN PosInf
    ELSE NegInf

\* a < b
JsLt(a0, b0) ==
    LET a == ToNumber(a0)  b == ToNumber(b0) IN
    IF a.k = "nan" \/ b.k = "nan" THEN FALSE
    ELSE IF a.k = "num" /\ b.k = "num" THEN a.p * b.q < b.p * a.q
    ELSE IF a.k = b.k THEN FALSE
    ELSE a.k = "ninf" \/ b.k = "inf"

\* a > b, a <= b, a >= b
JsGt(a, b) == JsLt(b, a)
JsLe(a0, b0) ==
    LET a == ToNumber(a0)  b == ToNumber(b0) IN
    IF a.k = "nan" \/ b.k = "nan" THEN FALSE ELSE ~JsLt(b, a)
JsGe(a, b) == JsLe(b, a)

\* a === b on numbers
JsStrictEq(a, b) == a.k # "nan" /\ b.k # "nan" /\ a = b

\* Math.floor(x)
MathFloor(x) ==
    IF x.k = "num" THEN Fin(x.p \div x.q, 1) ELSE x

RECURSIVE MathMinFrom(_, _, _)
MathMinFrom(vs, i, acc) ==
    IF i > Len(vs) THEN acc
    ELSE LET v == ToNumber(vs[i]) IN
         IF v.k = "nan" \/ acc.k = "nan" THEN NaN
         ELSE MathMinFrom(vs, i + 1, IF JsLt(v, acc) THEN v ELSE acc)

\* Math.min(...vs): +Infinity for no argument, NaN if any argument is NaN
MathMin(vs) == MathMinFrom(vs, 1, PosInf)

RECURSIVE MathMaxFrom(_, _, _)
MathMaxFrom(vs, i, acc) ==
    IF i > Len(vs) THEN acc
    ELSE LET v == ToNumber(vs[i]) IN
         IF v.k = "nan" \/ acc.k = "nan" THEN NaN
         ELSE MathMaxFrom(vs, i + 1, IF JsGt(v, acc) THEN v ELSE acc)

\* Math.max(...vs)
MathMax(vs) == MathMaxFrom(vs, 1, NegInf)

RECURSIVE ReduceSum(_, _, _)
ReduceSum(vs, i, acc) ==
    IF i > Len(vs) THEN acc ELSE ReduceSum(vs, i + 1, JsAdd(acc, vs[i]))

----------------------------------------------------------------------------
(* services/advisor.ts: statistics helpers and threshold predicates *)

\* Mutant of ValidStat: the filter drops NaN only and keeps the infinities
ValidStatKeepsInfinity(v) == TypeofNumber(v) /\ ~NumberIsNaN(v)

\* values.filter((v) => typeof v === 'number' && Number.isFinite(v))
ValidStat(v) == TypeofNumber(v) /\ NumberIsFinite(v)

computeStats(values) ==
    LET valid == SelectSeq(values, ValidStat) IN
    IF Len(valid) = 0
    THEN [mean |-> Num(0), min |-> Num(0), max |-> Num(0)]
    ELSE [mean |-> JsDiv(ReduceSum(valid, 1, Num(0)), Num(Len(valid))),
          min  |-> MathMin(valid),
          max  |-> MathMax(valid)]

\* obj[key]: undefined when the key is absent
Get(obj, key) == IF key \in DOMAIN obj THEN obj[key] ELSE Undefined

FieldValues(exps, field, kind) ==
    [i \in 1..Len(exps) |->
        IF kind = "input" THEN Get(exps[i].inputs, field)
        ELSE Get(exps[i].outputs, field)]

statsForField(exps, field, kind) == computeStats(FieldValues(exps, field, kind))

\* Mutant of high: the comparison is not strict
highNonStrict(value, s) == JsGe(value, JsMul(s.mean, Fin(115, 100)))

high(value, s) == JsGt(value, JsMul(s.mean, Fin(115, 100)))
low(value, s)  == JsLt(value, JsMul(s.mean, Fin(85, 100)))

highThreshold(s) == JsMul(s.mean, Fin(115, 100))
lowThreshold(s)  == JsMul(s.mean, Fin(85, 100))

----------------------------------------------------------------------------
(* services/advisor.ts: buildAdvisorSections *)

RECURSIVE Pow10(_)
Pow10(d) == IF d = 0 THEN 1 ELSE 10 * Pow10(d - 1)

\* x.toFixed(d) of a number: the decimal string, kept as its digits (the value
\* times 10^d rounded half away from zero) or as "NaN" / "Infinity".
ToFixed(x, d) ==
    IF x.k = "nan" THEN [s |-> "NaN", n |-> 0, d |-> 0]
    ELSE IF x.k = "inf" THEN [s |-> "Infinity", n |-> 0, d |-> 0]
    ELSE IF x.k = "ninf" THEN [s |-> "-Infinity", n |-> 0, d |-> 0]
    ELSE LET m == (2 * Abs(x.p) * Pow10(d) + x.q) \div (2 * x.q)
         IN  [s |-> "digits", n |-> IF x.p < 0 THEN -m ELSE m, d |-> d]

\* v.toFixed(...) raises a TypeError when v is null or undefined
ToFixedThrows(v) == LooseNull(v)

NoLines == [bullets |-> <<>>, why |-> <<>>]

\* Mutant of Push: the rule pushes its bullet without the explanation line
PushBulletOnly(acc, cat, v, msg, bulletArgs, whyArgs) ==
    IF ToFixedThrows(v) THEN [acc EXCEPT !.threw = TRUE]
    ELSE [acc EXCEPT
            ![cat].bullets = Append(@, [msg |-> msg, args |-> bulletArgs])]

\* bullets.push(...) and whyLines.push(...) of one rule; building the bullet
\* text calls v.toFixed first, which may raise.
Push(acc, cat, v, msg, bulletArgs, whyArgs) ==
    IF ToFixedThrows(v) THEN [acc EXCEPT !.threw = TRUE]
    ELSE [acc EXCEPT
            ![cat].bullets = Append(@, [msg |-> msg, args |-> bulletArgs]),
            ![cat].why     = Append(@, [msg |-> msg, args |-> whyArgs])]

\* A fixed fallback bullet with its explanation line
PushFallback(acc, cat, msg) ==
    [acc EXCEPT ![cat].bullets = Append(@, [msg |-> msg, args |-> <<>>]),
                ![cat].why     = Append(@, [msg |-> msg, args |-> <<>>])]

CoAgent1Rule(acc, anchor, s) ==
    LET v == Get(anchor.inputs, "Co-Agent 1") IN
    IF acc.threw \/ v = Undefined THEN acc
    ELSE IF high(v, s) THEN
        Push(acc, "cost", v, "Co-Agent 1 is relatively high",
             <<ToFixed(v, 1), ToFixed(s.mean, 1), ToFixed(s.min, 1), ToFixed(s.max, 1)>>,
             <<ToFixed(v, 2), ToFixed(s.mean, 2), ToFixed(s.min, 2), ToFixed(s.max, 2),
               ToFixed(highThreshold(s), 2)>>)
    ELSE IF low(v, s) THEN
        Push(acc, "cost", v, "Co-Agent 1 is on the low side",
             <<ToFixed(v, 1), ToFixed(s.mean, 1)>>,
             <<ToFixed(v, 2), ToFixed(s.mean, 2), ToFixed(lowThreshold(s), 2)>>)
    ELSE acc

CoAgent2Rule(acc, anchor, s) ==
    LET v == Get(anchor.inputs, "Co-Agent 2") IN
    IF acc.threw \/ v = Undefined THEN acc
    ELSE IF high(v, s) THEN
        Push(acc, "cost", v, "Co-Agent 2 is also high",
             <<ToFixed(v, 1), ToFixed(s.mean, 1), ToFixed(s.min, 1), ToFixed(s.max, 1)>>,
             <<ToFixed(v, 2), ToFixed(s.mean, 2), ToFixed(s.min, 2), ToFixed(s.max, 2),
               ToFixed(highThreshold(s), 2)>>)
    ELSE acc

CarbonBlackRule(acc, anchor, s) ==
    LET v == Get(anchor.inputs, "Carbon Black High Grade") IN
    IF acc.threw \/ v = Undefined THEN acc
    ELSE IF high(v, s) THEN
        Push(acc, "cost", v, "Carbon Black High Grade is near the top",
             <<ToFixed(v, 1), ToFixed(s.mean, 1)>>,
             <<ToFixed(v, 2), ToFixed(s.mean, 2), ToFixed(s.min, 2), ToFixed(s.max, 2),
               ToFixed(highThreshold(s), 2)>>)
    ELSE acc

\* if (!bulletsCost.length) push the "no big cost flags" message
CostFallback(acc) ==
    IF acc.threw \/ Len(acc.cost.bullets) # 0 THEN acc
    ELSE PushFallback(acc, "cost", "close to typical loadings")

CureTimeRule(acc, anchor, s) ==
    LET v == Get(anchor.outputs, "Cure Time") IN
    IF acc.threw \/ v = Undefined THEN acc
    ELSE IF high(v, s) THEN
        Push(acc, "cure", v, "Cure time is slower than the dataset mean",
             <<ToFixed(v, 2), ToFixed(s.mean, 2)>>,
             <<ToFixed(v, 2), ToFixed(s.mean, 2), ToFixed(highThreshold(s), 2)>>)
    ELSE
        Push(acc, "cure", v, "Cure time is already at or better than the mean",
             <<ToFixed(v, 2), ToFixed(s.mean, 2)>>,
             <<ToFixed(v, 2), ToFixed(s.mean, 2)>>)

OvenRule(acc, anchor, s) ==
    LET v == Get(anchor.inputs, "Oven Temperature") IN
    IF acc.threw \/ v = Undefined THEN acc
    ELSE IF high(v, s) THEN
        Push(acc, "cure", v, "Oven temperature is at the upper part",
             <<ToFixed(v, 0), ToFixed(s.min, 0), ToFixed(s.max, 0)>>,
             <<ToFixed(v, 0), ToFixed(s.min, 0), ToFixed(s.max, 0),
               ToFixed(highThreshold(s), 0)>>)
    ELSE
        Push(acc, "cure", v, "Oven temperature is moderate",
             <<ToFixed(v, 0)>>,
             <<ToFixed(v, 0), ToFixed(s.mean, 0)>>)

CompressionRule(acc, anchor, s) ==
    LET v == Get(anchor.outputs, "Compression Set") IN
    IF acc.threw \/ v = Undefined THEN acc
    ELSE IF JsLe(v, s.mean) THEN
        Push(acc, "field", v, "Compression set is at or below the dataset mean",
             <<ToFixed(v, 1), ToFixed(s.mean, 1)>>,
             <<ToFixed(v, 1), ToFixed(s.mean, 1)>>)
    ELSE
        Push(acc, "field", v, "Compression set is higher than typical",
             <<ToFixed(v, 1), ToFixed(s.mean, 1)>>,
             <<ToFixed(v, 1), ToFixed(s.mean, 1)>>)

ElongationRule(acc, anchor, s) ==
    LET v == Get(anchor.outputs, "Elongation") IN
    IF acc.threw \/ v = Undefined THEN acc
    ELSE IF high(v, s) THEN
        Push(acc, "field", v, "Elongation is in the upper half",
             <<ToFixed(v, 1), ToFixed(s.mean, 1)>>,
             <<ToFixed(v, 1), ToFixed(s.mean, 1), ToFixed(highThreshold(s), 1)>>)
    ELSE IF low(v, s) THEN
        Push(acc, "field", v, "Elongation is lower than typical",
             <<ToFixed(v, 1)>>,
             <<ToFixed(v, 1), ToFixed(s.mean, 1), ToFixed(lowThreshold(s), 1)>>)
    ELSE acc

\* if (!bulletsField.length) push the "near the centre" message
FieldFallback(acc) ==
    IF acc.threw \/ Len(acc.field.bullets) # 0 THEN acc
    ELSE PushFallback(acc, "field", "near the centre of the historical cloud")

\* The returned array; why is whyLines.join('\n'), kept as its lines
\* (no line is empty, so the empty string is the empty sequence).
Sections(acc) ==
    << [id |-> "cost",  title |-> "Cost levers",
        bullets |-> acc.cost.bullets,  why |-> acc.cost.why],
       [id |-> "cure",  title |-> "Cure time & oven utilisation",
        bullets |-> acc.cure.bullets,  why |-> acc.cure.why],
       [id |-> "field", title |-> "Field performance & scrap",
        bullets |-> acc.field.bullets, why |-> acc.field.why] >>

\* The call either returns the three sections or raises (threw = TRUE).
buildAdvisorSections(anchor, allExperiments) ==
    LET coAgent1Stats        == statsForField(allExperiments, "Co-Agent 1", "input")
        coAgent2Stats        == statsForField(allExperiments, "Co-Agent 2", "input")
        carbonBlackHighStats == statsForField(allExperiments, "Carbon Black High Grade", "input")
        ovenStats            == statsForField(allExperiments, "Oven Temperature", "input")
        cureTimeStats        == statsForField(allExperiments, "Cure Time", "output")
        compressionStats     == statsForField(allExperiments, "Compression Set", "output")
        elongationStats      == statsForField(allExperiments, "Elongation", "output")
        a0 == [threw |-> FALSE, cost |-> NoLines, cure |-> NoLines, field |-> NoLines]
        a1 == CoAgent1Rule(a0, anchor, coAgent1Stats)
        a2 == CoAgent2Rule(a1, anchor, coAgent2Stats)
        a3 == CarbonBlackRule(a2, anchor, carbonBlackHighStats)
        a4 == CostFallback(a3)
        a5 == CureTimeRule(a4, anchor, cureTimeStats)
        a6 == OvenRule(a5, anchor, ovenStats)
        a7 == CompressionRule(a6, anchor, compressionStats)
        a8 == ElongationRule(a7, anchor, elongationStats)
        a9 == FieldFallback(a8)
    IN  IF a9.threw THEN [threw |-> TRUE, sections |-> <<>>]
        ELSE [threw |-> FALSE, sections |-> Sections(a9)]

----------------------------------------------------------------------------
(* components/MeasurementRange.tsx: buildHistogramData *)

DefaultBinCount == 6

\* experiments.filter(...): the chosen output is inside [minOut, maxOut]
InWindow(exp, outputKey, minOut, maxOut) ==
    LET outVal == Get(exp.outputs, outputKey) IN
    /\ ~LooseNull(outVal)
    /\ ~NumberIsNaN(outVal)
    /\ JsGe(outVal, minOut)
    /\ JsLe(outVal, maxOut)

\* v != null && !Number.isNaN(v)
Collected(v) == ~LooseNull(v) /\ ~NumberIsNaN(v)

\* The loop "for (const exp of filtered) values.push(exp.inputs[inputKey])"
CollectValues(filtered, inputKey) ==
    SelectSeq([i \in 1..Len(filtered) |-> Get(filtered[i].inputs, inputKey)],
              Collected)

\* The loop that builds rawBins: bin i (from 0) is rawBins[i + 1]
RawBins(minVal, maxVal, step, binCount) ==
    [n \in 1..binCount |->
        LET i     == n - 1
            start == JsAdd(minVal, JsMul(Num(i), step))
            end   == IF i = binCount - 1 THEN maxVal ELSE JsAdd(start, step)
        IN  [binLabel |-> <<ToFixed(start, 1), ToFixed(end, 1)>>, count |-> 0]]

\* let index = Math.floor((v - minVal) / step);
\* if (index >= binCount) index = binCount - 1;
BinIndex(v, minVal, step, binCount) ==
    LET index == MathFloor(JsDiv(JsSub(v, minVal), step)) IN
    IF JsGe(index, Num(binCount)) THEN Num(binCount - 1) ELSE index

\* rawBins[index] is an element of the array
IndexInArray(index, binCount) ==
    index.k = "num" /\ index.q = 1 /\ index.p >= 0 /\ index.p < binCount

\* The loop "for (const v of values) rawBins[index].count += 1"; reading
\* .count of a missing element raises a TypeError.
RECURSIVE CountLoop(_, _, _, _, _, _)
CountLoop(values, j, bins, minVal, step, binCount) ==
    IF j > Len(values) THEN [threw |-> FALSE, bins |-> bins]
    ELSE LET index == BinIndex(values[j], minVal, step, binCount) IN
         IF ~IndexInArray(index, binCount) THEN [threw |-> TRUE, bins |-> <<>>]
         ELSE CountLoop(values, j + 1,
                        [bins EXCEPT ![index.p + 1].count = @ + 1],
                        minVal, step, binCount)

\* Mutant of AllIdentical: the single-bar case is never taken
AllIdenticalNever(minVal, maxVal) == JsLt(maxVal, minVal)

\* if (minVal === maxVal): every collected value is the same
AllIdentical(minVal, maxVal) == JsStrictEq(minVal, maxVal)

buildHistogramData(exps, inputKey, outputKey, minOut, maxOut, binCount) ==
    LET InRange(exp) == InWindow(exp, outputKey, minOut, maxOut)
        filtered      == SelectSeq(exps, InRange)
        matchingCount == Len(filtered)
        values        == CollectValues(filtered, inputKey)
        minVal        == MathMin(values)
        maxVal        == MathMax(values)
        step          == JsDiv(JsSub(maxVal, minVal), Num(binCount))
        counted       == CountLoop(values, 1,
                                   RawBins(minVal, maxVal, step, binCount),
                                   minVal, step, binCount)
    IN  IF matchingCount = 0
        THEN [threw |-> FALSE, bins |-> <<>>, matchingCount |-> 0]
        ELSE IF Len(values) = 0
        THEN [threw |-> FALSE, bins |-> <<>>, matchingCount |-> matchingCount]
        ELSE IF AllIdentical(minVal, maxVal)
        THEN [threw |-> FALSE,
              bins |-> <<[binLabel |-> <<ToFixed(minVal, 2)>>,
                          count |-> Len(values)]>>,
              matchingCount |-> matchingCount]
        ELSE IF counted.threw
        THEN [threw |-> TRUE, bins |-> <<>>, matchingCount |-> 0]
        ELSE [threw |-> FALSE, bins |-> counted.bins,
              matchingCount |-> matchingCount]

----------------------------------------------------------------------------
(* data/experiments.ts: the dataset *)

InputFields  == {"Co-Agent 1", "Co-Agent 2", "Carbon Black High Grade",
                 "Oven Temperature"}
OutputFields == {"Cure Time", "Compression Set", "Elongation"}

\* Object.entries keys are distinct: the id of the i-th record
IdOf(i) == <<"E1", "E2", "E3", "E4", "E5", "E6">>[i]

\* A record whose present inputs all hold vi and whose present outputs hold vo
Experiment(ins, outs, vi, vo) ==
    [inputs |-> [f \in ins |-> vi], outputs |-> [f \in outs |-> vo]]

\* experiments = Object.entries(raw).map(([id, value]) => ({id, inputs, outputs}))
LoadExperiments(raw) ==
    [i \in 1..Len(raw) |->
        [id |-> IdOf(i), inputs |-> raw[i].inputs, outputs |-> raw[i].outputs]]

SeqsUpTo(S, n) == UNION {[1..m -> S] : m \in 0..n}

NoAnchor == [id |-> "", inputs |-> [f \in {} |-> NaN],
             outputs |-> [f \in {} |-> NaN]]

NoAdvisor == [state |-> "none", anchor |-> NoAnchor, sections |-> <<>>]

NoHist == [state |-> "none", inputKey |-> "", outputKey |-> "",
           minOut |-> NaN, maxOut |-> NaN, binCount |-> 0,
           bins |-> <<>>, matchingCount |-> 0]

----------------------------------------------------------------------------
(* MeasurementRange.tsx: OUTPUT_STATS, computed once when the module loads *)

\* outputKeys = first ? Object.keys(first.outputs) : []
outputKeys(exps) == IF Len(exps) = 0 THEN {} ELSE DOMAIN exps[1].outputs

\* The inner loop of computeOutputStats over the records i..Len(exps)
RECURSIVE ScanOutput(_, _, _, _)
ScanOutput(exps, key, i, acc) ==
    IF i > Len(exps) THEN acc
    ELSE LET value == Get(exps[i].outputs, key) IN
         IF LooseNull(value) \/ NumberIsNaN(value)
         THEN ScanOutput(exps, key, i + 1, acc)
         ELSE ScanOutput(exps, key, i + 1,
                  [min |-> IF JsLt(value, acc.min) THEN value ELSE acc.min,
                   max |-> IF JsGt(value, acc.max) THEN value ELSE acc.max])

computeOutputStats(exps) ==
    [key \in outputKeys(exps) |->
        LET seen == ScanOutput(exps, key, 1, [min |-> PosInf, max |-> NegInf])
        IN  [min |-> IF JsStrictEq(seen.min, PosInf) THEN Num(0) ELSE seen.min,
             max |-> IF JsStrictEq(seen.max, NegInf) THEN Num(0) ELSE seen.max]]

----------------------------------------------------------------------------
(* The views before the application is rendered *)

NoText == [state |-> "none", input |-> <<>>, sections |-> <<>>, tokens |-> 0]

NoPrompt == [threw |-> FALSE, built |-> FALSE, id |-> "", n |-> 0,
             inputsSummary |-> <<>>, outputsSummary |-> <<>>,
             outputStatsLines |-> <<>>]

NoEstimate == [isNull |-> TRUE, n |-> 0]

NoPromptCall == [state |-> "none", anchor |-> NoAnchor, prompt |-> NoPrompt]

\* No OptimizationAdvisor component is mounted.  The disclosure flags of the
\* page (debugSectionId, showPrompt) only select what is displayed and are
\* not part of the state.
NoAdvisorView ==
    [mounted |-> FALSE, anchorId |-> "", llmStatus |-> "idle",
     llmText |-> <<>>, llmError |-> "",
     llmPrompt |-> NoPrompt, llmTokenEstimate |-> NoEstimate]

\* No MeasurementRange component is mounted
NoRangeView ==
    [mounted |-> FALSE, measurementKey |-> "", minValue |-> Num(0),
     maxValue |-> Num(0)]

NoNet == [inflight |-> {}, sent |-> 0, shownFor |-> ""]

\* The modules are loaded (OUTPUT_STATS is computed) but nothing is rendered
AppNotStarted ==
    /\ text = NoText
    /\ promptCall = NoPromptCall
    /\ outputStats = computeOutputStats(experiments)
    /\ hasOpenAiKey = FALSE
    /\ activeTab = "none"
    /\ oa = NoAdvisorView
    /\ mr = NoRangeView
    /\ net = NoNet

----------------------------------------------------------------------------
(* Statistics: computeStats, statsForField, high, low applied to drawn inputs *)

StatVals == {Num(5), Num(20), Num(-20), Num(MaxFinite),
             NaN, PosInf, Null, Undefined}

ProbeVals == {Num(16), Num(17), Num(23), Num(24), Num(-20), Num(0),
              NaN, PosInf, NegInf, Null}

StatDataVals == {Num(20), Num(-20), NaN, Null}

\* Raw records for statsForField: every field present, or none
StatPool ==
    {Experiment(InputFields, OutputFields, v, v) : v \in StatDataVals}
    \cup {Experiment({}, {}, NaN, NaN)}

StatFields == {"Co-Agent 1", "Cure Time"}

NoStats == [origin |-> "none", exps |-> <<>>, field |-> "", kind |-> "",
            values |-> <<>>, result |-> computeStats(<<>>)]

NoProbe == [state |-> "none", v |-> NaN, high |-> FALSE, low |-> FALSE]

InitStats ==
    /\ experiments = <<>>
    /\ stats = NoStats
    /\ probe = NoProbe
    /\ advisor = NoAdvisor
    /\ hist = NoHist
    /\ AppNotStarted

CallComputeStats ==
    /\ stats.origin = "none"
    /\ \E vs \in SeqsUpTo(StatVals, MaxStatLen) :
        /\ stats' = [origin |-> "computeStats", exps |-> <<>>, field |-> "",
                     kind |-> "", values |-> vs, result |-> computeStats(vs)]
        /\ probe' = NoProbe
        /\ UNCHANGED <<experiments, advisor, hist>> /\ UNCHANGED appVars

CallStatsForField ==
    /\ stats.origin = "none"
    /\ \E raw \in SeqsUpTo(StatPool, MaxRecords), field \in StatFields,
          kind \in {"input", "output"} :
        LET exps == LoadExperiments(raw) IN
        /\ stats' = [origin |-> "statsForField", exps |-> exps, field |-> field,
                     kind |-> kind, values |-> FieldValues(exps, field, kind),
                     result |-> statsForField(exps, field, kind)]
        /\ probe' = NoProbe
        /\ UNCHANGED <<experiments, advisor, hist>> /\ UNCHANGED appVars

EvalThresholds ==
    /\ stats.origin # "none"
    /\ probe.state = "none"
    /\ \E v \in ProbeVals :
        probe' = [state |-> "done", v |-> v,
                  high |-> high(v, stats.result), low |-> low(v, stats.result)]
    /\ UNCHANGED <<experiments, stats, advisor, hist>> /\ UNCHANGED appVars

\* The caller drops the returned statistics; the helpers keep no state.
DropStats ==
    /\ stats.origin # "none"
    /\ stats' = NoStats
    /\ probe' = NoProbe
    /\ UNCHANGED <<experiments, advisor, hist>> /\ UNCHANGED appVars

NextStats ==
    CallComputeStats \/ CallStatsForField \/ EvalThresholds \/ DropStats

SpecStats == InitStats /\ [][NextStats]_vars

----------------------------------------------------------------------------
(* Claims about the statistics helpers *)

\* The finite entries the statistics are about: of the list handed to
\* computeStats, or of the records that have the field (statsForField).
FiniteEntries ==
    IF stats.origin = "statsForField"
    THEN LET m(i) == IF stats.kind = "input" THEN stats.exps[i].inputs
                     ELSE stats.exps[i].outputs
             has == {i \in 1..Len(stats.exps) :
                        stats.field \in DOMAIN m(i) /\ m(i)[stats.field].k = "num"}
         IN  [i \in has |-> m(i)[stats.field]]
    ELSE [i \in {j \in 1..Len(stats.values) : stats.values[j].k = "num"}
            |-> stats.values[i]]

RECURSIVE SumP(_, _)
SumP(f, S) ==
    IF S = {} THEN 0
    ELSE LET i == CHOOSE j \in S : TRUE IN f[i].p + SumP(f, S \ {i})

\* Some running sum (in list order) leaves the finite range
SumOverflows(f) ==
    \E i \in DOMAIN f :
        Abs(SumP(f, {j \in DOMAIN f : j <= i})) > MaxFinite

C9_MinMeanMax ==
    (/\ stats.origin = "computeStats"
     /\ Len(stats.values) >= 1
     /\ \A i \in 1..Len(stats.values) : stats.values[i].k = "num")
    => /\ JsLe(stats.result.min, stats.result.mean)
       /\ JsLe(stats.result.mean, stats.result.max)

----------------------------------------------------------------------------
(* The advisor applied to drawn anchors and datasets *)

AdvisorDataVals == {Num(20), Num(-20), NaN, Null}

\* Raw dataset records: every field present with one value, or no field
AdvisorPool ==
    {Experiment(InputFields, OutputFields, v, v) : v \in AdvisorDataVals}
    \cup {Experiment({}, {}, NaN, NaN)}

AnchorVals == {Num(10), Num(20), Num(30), Num(-30), NaN, PosInf, Null}

\* Anchors: any subset of the fields present, all holding one value
Anchors ==
    {[id |-> "A"] @@ Experiment(ins, outs, v, v) :
        ins \in SUBSET InputFields, outs \in SUBSET OutputFields, v \in AnchorVals}

InitAdvisor ==
    /\ experiments \in {LoadExperiments(raw) : raw \in SeqsUpTo(AdvisorPool, MaxRecords)}
    /\ stats = NoStats
    /\ probe = NoProbe
    /\ advisor = NoAdvisor
    /\ hist = NoHist
    /\ AppNotStarted

CallBuildAdvisorSections ==
    /\ advisor.state = "none"
    /\ \E anchor \in Anchors :
        LET r == buildAdvisorSections(anchor, experiments) IN
        advisor' = [state |-> IF r.threw THEN "threw" ELSE "returned",
                    anchor |-> anchor, sections |-> r.sections]
    /\ UNCHANGED <<experiments, stats, probe, hist>> /\ UNCHANGED appVars

\* The caller drops the result; the function keeps no state.
DropSections ==
    /\ advisor.state # "none"
    /\ advisor' = NoAdvisor
    /\ UNCHANGED <<experiments, stats, probe, hist>> /\ UNCHANGED appVars

NextAdvisor == CallBuildAdvisorSections \/ DropSections

SpecAdvisor == InitAdvisor /\ [][NextAdvisor]_vars

----------------------------------------------------------------------------
(* Claims about buildAdvisorSections *)

Called == advisor.state # "none"

\* C1: each of the sections a call returns (cost, cure, field) has at least
\* one bullet, whatever the anchor and the dataset.
C1_EverySectionHasBullet ==
    advisor.state = "returned" =>
        \A i \in 1..Len(advisor.sections) :
            Len(advisor.sections[i].bullets) >= 1

\* C2: every call returns exactly three sections with ids cost, cure, field,
\* in this order.
C2_ThreeSectionsInOrder ==
    Called =>
        /\ Len(advisor.sections) = 3
        /\ advisor.sections[1].id = "cost"
        /\ advisor.sections[2].id = "cure"
        /\ advisor.sections[3].id = "field"

\* C3: no call raises, whatever the anchor and the dataset hold.
C3_NeverRaises == advisor.state # "threw"

----------------------------------------------------------------------------
(* The histogram builder applied to drawn datasets, ranges and bin counts *)

MaxHistRecords == 3    \* longest dataset handed to buildHistogramData

\* One raw record with input "Co-Agent 1" = vi and output "Cure Time" = vo
\* (a field is absent when its value is Undefined)
HistRecord(vi, vo) ==
    [inputs  |-> [f \in (IF vi = Undefined THEN {} ELSE {"Co-Agent 1"}) |-> vi],
     outputs |-> [f \in (IF vo = Undefined THEN {} ELSE {"Cure Time"}) |-> vo]]

HistPool ==
    << HistRecord(Num(1), Num(10)),      HistRecord(Num(1), Num(20)),
       HistRecord(Num(2), Num(30)),      HistRecord(Num(4), Num(20)),
       HistRecord(Undefined, Num(30)),   HistRecord(NaN, Num(10)),
       HistRecord(PosInf, Num(20)),      HistRecord(Num(2), Undefined),
       HistRecord(Num(2), NaN),          HistRecord(Num(2), PosInf) >>

\* Datasets: up to MaxHistRecords pool records, listed in pool order
\* (the builder's counts do not depend on the order of the records)
SortedIndexSeqs(n, k) ==
    UNION {{f \in [1..m -> 1..k] : \A i \in 1..(m - 1) : f[i] <= f[i + 1]} :
           m \in 0..n}

HistDatasets ==
    {LoadExperiments([i \in DOMAIN ix |-> HistPool[ix[i]]]) :
        ix \in SortedIndexSeqs(MaxHistRecords, Len(HistPool))}

HistInputKeys == {"Co-Agent 1", "Co-Agent 2"}
HistOutputKeys == {"Cure Time"}
HistMins == {Num(10), Num(20)}
HistMaxs == {Num(20), Num(30), PosInf}
BinCounts == {0, 1, 2, 3, DefaultBinCount}

InitHistogram ==
    /\ experiments \in HistDatasets
    /\ stats = NoStats
    /\ probe = NoProbe
    /\ advisor = NoAdvisor
    /\ hist = NoHist
    /\ AppNotStarted

CallBuildHistogramData ==
    /\ hist.state = "none"
    /\ \E inputKey \in HistInputKeys, outputKey \in HistOutputKeys,
          minOut \in HistMins, maxOut \in HistMaxs, binCount \in BinCounts :
        LET r == buildHistogramData(experiments, inputKey, outputKey,
                                    minOut, maxOut, binCount)
        IN  hist' = [state |-> IF r.threw THEN "threw" ELSE "returned",
                     inputKey |-> inputKey, outputKey |-> outputKey,
                     minOut |-> minOut, maxOut |-> maxOut, binCount |-> binCount,
                     bins |-> r.bins, matchingCount |-> r.matchingCount]
    /\ UNCHANGED <<experiments, stats, probe, advisor>> /\ UNCHANGED appVars

\* The caller renders the result and drops it; the builder keeps no state.
DropHistogram ==
    /\ hist.state # "none"
    /\ hist' = NoHist
    /\ UNCHANGED <<experiments, stats, probe, advisor>> /\ UNCHANGED appVars

NextHistogram == CallBuildHistogramData \/ DropHistogram

SpecHistogram == InitHistogram /\ [][NextHistogram]_vars

----------------------------------------------------------------------------
(* Claims about buildHistogramData *)

HistCalled == hist.state # "none"

\* A finite v lies in the closed range [lo, hi]
Within(v, lo, hi) ==
    /\ lo.k \in {"num", "ninf"}
    /\ hi.k \in {"num", "inf"}
    /\ lo.k = "num" => lo.p * v.q <= v.p * lo.q
    /\ hi.k = "num" => v.p * hi.q <= hi.p * v.q

\* Records whose chosen output is a finite number inside the range
MatchingRecords ==
    {i \in 1..Len(experiments) :
        LET o == Get(experiments[i].outputs, hist.outputKey) IN
        o.k = "num" /\ Within(o, hist.minOut, hist.maxOut)}

\* Matching records with a finite value for the chosen input
ValidInputRecords ==
    {i \in MatchingRecords :
        Get(experiments[i].inputs, hist.inputKey).k = "num"}

RECURSIVE SumCounts(_)
SumCounts(bins) ==
    IF Len(bins) = 0 THEN 0 ELSE Head(bins).count + SumCounts(Tail(bins))

\* C4: for binCount >= 1 the bin counts sum to the number of matching records
\* that have a valid (finite) value for the input field, and never exceed
\* matchingCount.
C4_CountsSumToValidMatches ==
    (HistCalled /\ hist.binCount >= 1) =>
        /\ SumCounts(hist.bins) = Cardinality(ValidInputRecords)
        /\ SumCounts(hist.bins) <= hist.matchingCount

\* C5: a range that excludes every record gives bins = [] and matchingCount
\* = 0; matching records none of which has a valid input value give bins = []
\* and matchingCount = the number of matching records; neither case fails.
C5_EmptyHistogram ==
    HistCalled =>
        /\ MatchingRecords = {} =>
              /\ hist.state = "returned"
              /\ hist.bins = <<>>
              /\ hist.matchingCount = 0
        /\ (MatchingRecords # {} /\ ValidInputRecords = {}) =>
              /\ hist.state = "returned"
              /\ hist.bins = <<>>
              /\ hist.matchingCount = Cardinality(MatchingRecords)

\* The records whose input value the builder collects (output in the window,
\* input neither null nor NaN)
CollectedRecords ==
    {i \in 1..Len(experiments) :
        /\ InWindow(experiments[i], hist.outputKey, hist.minOut, hist.maxOut)
        /\ Collected(Get(experiments[i].inputs, hist.inputKey))}

CollectedValue(i) == Get(experiments[i].inputs, hist.inputKey)

C7_MatchingCountFiniteInRange ==
    hist.state = "returned" =>
        hist.matchingCount = Cardinality(MatchingRecords)

----------------------------------------------------------------------------
(* JavaScript strings: a text is the sequence of its characters *)

MaxTextLines == 3    \* most lines of a text assembled from LinePool

Space   == " "
Newline == "\n"
Hash    == "#"
Dot     == "."

\* The characters \s matches and String.prototype.trim removes
IsSpace(c) == c \in {Space, Newline, "\t", "\r"}

\* \d
IsDigit(c) == c \in {"0", "1", "2", "3", "4", "5", "6", "7", "8", "9"}

Drop(s, n) == SubSeq(s, n + 1, Len(s))

\* Number of leading characters of s, from position i on, that satisfy \s
RECURSIVE SpaceRun(_, _)
SpaceRun(s, i) ==
    IF i <= Len(s) /\ IsSpace(s[i]) THEN 1 + SpaceRun(s, i + 1) ELSE 0

\* Number of leading characters of s, from position i on, that satisfy \d
RECURSIVE DigitRun(_, _)
DigitRun(s, i) ==
    IF i <= Len(s) /\ IsDigit(s[i]) THEN 1 + DigitRun(s, i + 1) ELSE 0

RECURSIVE TrimEnd(_)
TrimEnd(s) ==
    IF Len(s) > 0 /\ IsSpace(s[Len(s)]) THEN TrimEnd(SubSeq(s, 1, Len(s) - 1))
    ELSE s

TrimStart(s) == Drop(s, SpaceRun(s, 1))

\* String.prototype.trim
Trim(s) == TrimEnd(TrimStart(s))

\* s has the characters of pat at position i
MatchesAt(s, i, pat) ==
    /\ i + Len(pat) - 1 <= Len(s)
    /\ \A j \in 1..Len(pat) : s[i + j - 1] = pat[j]

\* Array.prototype.join
RECURSIVE Join(_, _)
Join(parts, sep) ==
    IF Len(parts) = 0 THEN <<>>
    ELSE IF Len(parts) = 1 THEN parts[1]
    ELSE parts[1] \o sep \o Join(Tail(parts), sep)

\* First position >= i where pat occurs in s, or 0
RECURSIVE IndexOf(_, _, _)
IndexOf(s, pat, i) ==
    IF i + Len(pat) - 1 > Len(s) THEN 0
    ELSE IF MatchesAt(s, i, pat) THEN i
    ELSE IndexOf(s, pat, i + 1)

\* raw.split('\n')
RECURSIVE SplitLines(_)
SplitLines(s) ==
    LET i == IndexOf(s, <<Newline>>, 1) IN
    IF i = 0 THEN <<s>>
    ELSE <<SubSeq(s, 1, i - 1)>> \o SplitLines(Drop(s, i))

----------------------------------------------------------------------------
(* components/OptimizationAdvisor.tsx: parseLlmSections *)

HeaderMark == <<Hash, Hash, Hash>>

\* trimmed.replace(/^###\s*/, '')
StripFirstHeader(s) ==
    IF MatchesAt(s, 1, HeaderMark) THEN Drop(s, 3 + SpaceRun(s, 4)) ELSE s

\* normalised.split(/\n###\s*/)
RECURSIVE SplitSections(_)
SplitSections(s) ==
    LET i == IndexOf(s, <<Newline>> \o HeaderMark, 1) IN
    IF i = 0 THEN <<s>>
    ELSE <<SubSeq(s, 1, i - 1)>>
         \o SplitSections(Drop(s, i + 3 + SpaceRun(s, i + 4)))

\* line.replace(/^\d+\.\s*/, '').trim()
Cleaned(line) ==
    LET d == DigitRun(line, 1) IN
    IF d >= 1 /\ d < Len(line) /\ line[d + 1] = Dot
    THEN Trim(Drop(line, d + 1 + SpaceRun(line, d + 2)))
    ELSE Trim(line)

\* raw.split('\n').map((l) => l.trim())
TrimmedLines(raw) ==
    LET ls == SplitLines(raw) IN [i \in 1..Len(ls) |-> Trim(ls[i])]

\* The loop over bodyLines: the cleaned text of every line that leaves some
RECURSIVE CollectBullets(_)
CollectBullets(bodyLines) ==
    IF Len(bodyLines) = 0 THEN <<>>
    ELSE LET line == Head(bodyLines)
             rest == CollectBullets(Tail(bodyLines))
         IN  IF Len(line) = 0 THEN rest
             ELSE IF Len(Cleaned(line)) > 0 THEN <<Cleaned(line)>> \o rest
             ELSE rest

\* if (!lines[0]) continue: a block without a first line is skipped
SkipsBlockNever(lines) == FALSE

SkipsBlock(lines) == Len(lines[1]) = 0

\* One iteration of the loop over rawSections: the sections it pushes
SectionOf(raw) ==
    LET lines     == TrimmedLines(raw)
        bodyLines == Tail(lines)
        bullets   == CollectBullets(bodyLines)
        whole     == Trim(Join(bodyLines, <<Space>>))
    IN  IF SkipsBlock(lines) THEN <<>>
        ELSE <<[title   |-> lines[1],
                bullets |-> IF Len(bullets) = 0 /\ Len(whole) > 0
                            THEN <<whole>> ELSE bullets]>>

RECURSIVE SectionsOf(_)
SectionsOf(rawSections) ==
    IF Len(rawSections) = 0 THEN <<>>
    ELSE SectionOf(Head(rawSections)) \o SectionsOf(Tail(rawSections))

parseLlmSections(t) ==
    LET trimmed == Trim(t) IN
    IF Len(trimmed) = 0 THEN <<>>
    ELSE SectionsOf(SplitSections(StripFirstHeader(trimmed)))

----------------------------------------------------------------------------
(* services/advisorLLM.ts: estimateTokens *)

MAX_OUTPUT_TOKENS == 350

\* Math.ceil(n / d) for a string length n and d > 0
MathFloorDiv(n, d) == n \div d

MathCeilDiv(n, d) == (n + d - 1) \div d

\* estimateTokens, as a function of prompt.length
estimateTokensOfLength(length) ==
    LET inputTokens == MathCeilDiv(length, 4)
        total       == inputTokens + MAX_OUTPUT_TOKENS
    IN  total

estimateTokens(prompt) == estimateTokensOfLength(Len(prompt))

----------------------------------------------------------------------------
(* services/advisorLLM.ts: buildLlmAdvisorPrompt *)

\* Mutant of IsFiniteNumber: the filter drops NaN only
IsFiniteNumberKeepsInfinity(v) == TypeofNumber(v) /\ ~NumberIsNaN(v)

\* typeof v === 'number' && Number.isFinite(v)
IsFiniteNumber(v) == TypeofNumber(v) /\ NumberIsFinite(v)

\* dataset.map((e) => e.outputs[name]).filter(...)
RawValues(dataset, name) ==
    SelectSeq([i \in 1..Len(dataset) |-> Get(dataset[i].outputs, name)],
              IsFiniteNumber)

RECURSIVE InsertSorted(_, _)
InsertSorted(x, sorted) ==
    IF Len(sorted) = 0 THEN <<x>>
    ELSE IF JsLt(x, Head(sorted)) THEN <<x>> \o sorted
    ELSE <<Head(sorted)>> \o InsertSorted(x, Tail(sorted))

\* [...rawValues].sort((a, b) => a - b)
RECURSIVE SortAscending(_)
SortAscending(vs) ==
    IF Len(vs) = 0 THEN <<>>
    ELSE InsertSorted(Head(vs), SortAscending(Tail(vs)))

BlankFixed == [s |-> "", n |-> 0, d |-> 0]

\* One line of the dataset summary
OutputStatsLine(dataset, name) ==
    LET rawValues == RawValues(dataset, name)
        sorted    == SortAscending(rawValues)
        mean      == JsDiv(ReduceSum(rawValues, 1, Num(0)), Num(Len(rawValues)))
        median    == sorted[(Len(sorted) \div 2) + 1]
        min       == sorted[1]
        max       == sorted[Len(sorted)]
    IN  IF Len(rawValues) = 0
        THEN [kind |-> "no historical data available", mean |-> BlankFixed,
              median |-> BlankFixed, min |-> BlankFixed, max |-> BlankFixed]
        ELSE [kind |-> "stats", mean |-> ToFixed(mean, 2),
              median |-> ToFixed(median, 2), min |-> ToFixed(min, 2),
              max |-> ToFixed(max, 2)]

\* Object.entries(obj).map(([name, value]) => `${name}: ${value.toFixed(2)}`)
SummaryThrows(obj) == \E name \in DOMAIN obj : ToFixedThrows(obj[name])

Summary(obj) == [name \in DOMAIN obj |-> ToFixed(obj[name], 2)]

\* The prompt, kept as its variable parts; threw = TRUE when value.toFixed
\* raises on an anchor value that is null or undefined.
buildLlmAdvisorPrompt(anchor, dataset) ==
    IF SummaryThrows(anchor.inputs) \/ SummaryThrows(anchor.outputs)
    THEN [NoPrompt EXCEPT !.threw = TRUE]
    ELSE [threw |-> FALSE, built |-> TRUE, id |-> anchor.id,
          n |-> Len(dataset),
          inputsSummary  |-> Summary(anchor.inputs),
          outputsSummary |-> Summary(anchor.outputs),
          outputStatsLines |->
              [name \in DOMAIN anchor.outputs |-> OutputStatsLine(dataset, name)]]

\* The template lines that hold no value (the en dash of "2-4" is written
\* as a hyphen: one character either way)
PromptFixedLines ==
    <<"You are helping a formulations engineer working on an elastomer system.",
       "They are looking at a *single* experimental run (\"anchor experiment\") in the context of a small historical dataset.",
       "",
       "Your job:",
       "- Identify cost levers (cheaper raw materials, lower expensive inputs, etc.)",
       "- Identify levers for cure time and oven utilisation",
       "- Comment on field performance & scrap risk (compression set, tensile, elongation)",
       "- Make **specific, numbered suggestions** that they can try next, not vague advice.",
       "",
       "",
       "Inputs (phr):",
       "",
       "Outputs (performance):",
       "",
       "Dataset summary:",
       "",
       "Format your response as three markdown sections:",
       "### 1) Cost Levers",
       "### 2) Cure Time & Oven Utilization",
       "### 3) Field Performance & Scrap",
       "",
       "Within each section, provide 2-4 short, concrete, numbered ideas that:",
       "- Refer to specific inputs (e.g. \"Co-Agent 1\", \"Silica Filler 2\", \"Oven Temperature\")",
       "- Briefly justify *why* the change might help compared to the dataset statistics",
       "- Avoid changing everything at once; suggest small, testable moves.">>

RECURSIVE SumLengths(_)
SumLengths(strings) ==
    IF Len(strings) = 0 THEN 0 ELSE Len(Head(strings)) + SumLengths(Tail(strings))

\* Sum of the natural numbers fn[x] over the domain of fn
SumFn(fn) ==
    Cardinality(UNION {{<<x, i>> : i \in 1..fn[x]} : x \in DOMAIN fn})

\* F(v), with v evaluated once
Once(F(_), v) == CHOOSE r \in {F(x) : x \in {v}} : TRUE

\* Number of decimal digits of a natural number
RECURSIVE DigitsLength(_)
DigitsLength(m) == IF m < 10 THEN 1 ELSE 1 + DigitsLength(m \div 10)

\* Length of the string toFixed returned
FixedLength(tf) ==
    IF tf.s = "digits"
    THEN (IF tf.n < 0 THEN 1 ELSE 0) + DigitsLength(Abs(tf.n) \div Pow10(tf.d))
         + (IF tf.d > 0 THEN 1 + tf.d ELSE 0)
    ELSE Len(tf.s)

\* Length of the entries joined by "\n"
SummaryLength(summary) ==
    IF DOMAIN summary = {} THEN 0
    ELSE SumFn([name \in DOMAIN summary |->
                   Len(name) + Len(": ") + FixedLength(summary[name])])
         + Cardinality(DOMAIN summary) - 1

StatsLineLength(name, line) ==
    IF line.kind = "stats"
    THEN Len(name) + Len(": mean=") + FixedLength(line.mean)
         + Len(", median=") + FixedLength(line.median)
         + Len(", min=") + FixedLength(line.min)
         + Len(", max=") + FixedLength(line.max)
    ELSE Len(name) + Len(": ") + Len(line.kind)

\* prompt.length: the elements of the array and the "\n" between them
PromptLength(prompt) ==
    LET elements == Len(PromptFixedLines) + 4
                    + Cardinality(DOMAIN prompt.outputStatsLines)
    IN  SumLengths(PromptFixedLines)
        + Len("Anchor experiment ID: ") + Len(prompt.id)
        + SummaryLength(prompt.inputsSummary)
        + SummaryLength(prompt.outputsSummary)
        + Len("Number of experiments: ") + DigitsLength(prompt.n)
        + SumFn([name \in DOMAIN prompt.outputStatsLines |->
                    StatsLineLength(name, prompt.outputStatsLines[name])])
        + elements - 1

\* getLlmAdvisorPromptPreview; the call raises when the builder does
getLlmAdvisorPromptPreview(anchor, dataset) ==
    Once(LAMBDA prompt :
            [prompt |-> prompt,
             estimatedTokens |->
                IF prompt.threw THEN NoEstimate
                ELSE [isNull |-> FALSE,
                      n |-> estimateTokensOfLength(PromptLength(prompt))]],
         buildLlmAdvisorPrompt(anchor, dataset))

----------------------------------------------------------------------------
(* parseLlmSections and estimateTokens applied to drawn texts *)

\* Lines a reply or a prompt is assembled from
LinePool ==
    {<<"#", "#", "#", " ", "A">>,   \* '### A'
     <<"1", ".", " ", "x">>,   \* '1. x'
     <<"2", ".", " ", "y">>,   \* '2. y'
     <<"#", "#", "#", " ", "B">>,   \* '### B'
     <<"p", "l", "a", "i", "n", " ", "p", "r", "o", "s", "e">>,   \* 'plain prose'
     <<>>,   \* ''
     <<" ">>,   \* ' '
     <<"2", ".", "5", " ", "p", "h", "r">>,   \* '2.5 phr'
     <<"1", ".">>,   \* '1.'
     <<"#", "#", "#">>}   \* '###'

\* The reply of the documented example: "### A\n1. x\n2. y\n### B\nplain prose"
ExampleReply ==
    Join(<<<<"#", "#", "#", " ", "A">>, <<"1", ".", " ", "x">>,
           <<"2", ".", " ", "y">>, <<"#", "#", "#", " ", "B">>,
           <<"p", "l", "a", "i", "n", " ", "p", "r", "o", "s", "e">> >>,
         <<Newline>>)

\* Every text of 1..MaxTextLines pool lines joined by "\n", and the example
Texts ==
    {Join(ls, <<Newline>>) :
        ls \in UNION {[1..m -> LinePool] : m \in 1..MaxTextLines}}
    \cup {ExampleReply}

InitText ==
    /\ experiments = <<>>
    /\ stats = NoStats
    /\ probe = NoProbe
    /\ advisor = NoAdvisor
    /\ hist = NoHist
    /\ AppNotStarted

CallParseLlmSections ==
    /\ text.state = "none"
    /\ \E t \in Texts :
        text' = [state |-> "parsed", input |-> t,
                 sections |-> parseLlmSections(t), tokens |-> 0]
    /\ UNCHANGED <<experiments, stats, probe, advisor, hist, promptCall,
                   outputStats, hasOpenAiKey, activeTab, oa, mr, net>>

CallEstimateTokens ==
    /\ text.state = "none"
    /\ \E t \in Texts :
        text' = [state |-> "estimated", input |-> t, sections |-> <<>>,
                 tokens |-> estimateTokens(t)]
    /\ UNCHANGED <<experiments, stats, probe, advisor, hist, promptCall,
                   outputStats, hasOpenAiKey, activeTab, oa, mr, net>>

\* The caller drops the result; neither function keeps state.
DropText ==
    /\ text.state # "none"
    /\ text' = NoText
    /\ UNCHANGED <<experiments, stats, probe, advisor, hist, promptCall,
                   outputStats, hasOpenAiKey, activeTab, oa, mr, net>>

NextText == CallParseLlmSections \/ CallEstimateTokens \/ DropText

SpecText == InitText /\ [][NextText]_vars

----------------------------------------------------------------------------
(* Claims about estimateTokens and parseLlmSections *)

\* C11: for every prompt p, estimateTokens(p) is ceil(length(p)/4) plus the
\* fixed output budget of 350, hence at least ceil(length(p)/4).
C11_EstimateIsCeilPlusBudget ==
    text.state = "estimated" =>
        \E n \in 0..Len(text.input) :
            /\ 4 * n >= Len(text.input)
            /\ 4 * (n - 1) < Len(text.input)
            /\ text.tokens = n + 350
            /\ text.tokens >= n

\* A prompt whose length is not a multiple of 4 has been estimated
C11_Witness ==
    /\ text.state = "estimated"
    /\ Len(text.input) % 4 = 1
    /\ Len(text.input) > 4

\* Every character of s is white space (the empty text included)
Blank(s) == \A i \in 1..Len(s) : IsSpace(s[i])

\* s is non-empty, starts and ends with a visible character, holds no newline
TidyLine(s) ==
    /\ Len(s) > 0
    /\ ~IsSpace(s[1])
    /\ ~IsSpace(s[Len(s)])
    /\ \A i \in 1..Len(s) : s[i] # Newline

\* C12: parseLlmSections is total: an empty or whitespace-only text gives the
\* empty sequence, and every other text gives a sequence of {title, bullets}
\* whose titles and bullets are non-empty one-line strings; no text makes it
\* raise.
C12_ParseIsTotal ==
    text.state = "parsed" =>
        /\ Blank(text.input) => text.sections = <<>>
        /\ \A i \in 1..Len(text.sections) :
            /\ DOMAIN text.sections[i] = {"title", "bullets"}
            /\ TidyLine(text.sections[i].title)
            /\ \A j \in 1..Len(text.sections[i].bullets) :
                TidyLine(text.sections[i].bullets[j])

\* A whitespace-only text that is not empty has been parsed to no section
C12_Witness ==
    /\ text.state = "parsed"
    /\ Len(text.input) > 1
    /\ Blank(text.input)
    /\ text.sections = <<>>

\* A line that opens a block: "###", white space or nothing, then a title
IsHeaderLine(line) == MatchesAt(line, 1, HeaderMark)

HeaderTitle(line) == Trim(Drop(line, 3))

\* Length of a leading "<number>. " prefix (digits, a dot, white space), or 0
OrdinalPrefix(line) ==
    LET d == DigitRun(line, 1) IN
    IF d >= 1 /\ d + 1 < Len(line) /\ line[d + 1] = Dot /\ IsSpace(line[d + 2])
    THEN d + 1 + SpaceRun(line, d + 2)
    ELSE 0

\* A line made of digits and a dot only: a list marker without any text
BareMarker(line) ==
    LET d == DigitRun(line, 1) IN
    d >= 1 /\ d + 1 = Len(line) /\ line[d + 1] = Dot

\* The bullets the lines i.. of a block stand for, up to the next header
RECURSIVE BulletsFrom(_, _)
BulletsFrom(lines, i) ==
    IF i > Len(lines) \/ IsHeaderLine(lines[i]) THEN <<>>
    ELSE LET line == Trim(lines[i]) IN
         IF Len(line) = 0 THEN BulletsFrom(lines, i + 1)
         ELSE <<Drop(line, OrdinalPrefix(line))>> \o BulletsFrom(lines, i + 1)

\* One section per header line, in reply order
RECURSIVE BlocksFrom(_, _)
BlocksFrom(lines, i) ==
    IF i > Len(lines) THEN <<>>
    ELSE IF IsHeaderLine(lines[i])
         THEN <<[title   |-> HeaderTitle(lines[i]),
                 bullets |-> BulletsFrom(lines, i + 1)]>>
              \o BlocksFrom(lines, i + 1)
         ELSE BlocksFrom(lines, i + 1)

\* A reply made of header-delimited blocks: it starts with a header line,
\* every header line carries a title, and no line is a marker without text
HeaderDelimited(t) ==
    LET lines == SplitLines(t) IN
    /\ IsHeaderLine(lines[1])
    /\ \A i \in 1..Len(lines) :
        /\ IsHeaderLine(lines[i]) => Len(HeaderTitle(lines[i])) > 0
        /\ ~BareMarker(Trim(lines[i]))

\* C13: for a reply made of header-delimited blocks the parser returns one
\* section per block in reply order, titled by the block's first line, whose
\* bullets are the following non-empty lines in order, each without its
\* leading "<number>. " prefix.
C13_OneSectionPerBlock ==
    (text.state = "parsed" /\ HeaderDelimited(text.input)) =>
        text.sections = BlocksFrom(SplitLines(text.input), 1)

\* The non-blank lines after the first line of a one-block reply
ProseBody(t) == SelectSeq(Tail(TrimmedLines(t)), LAMBDA l : Len(l) > 0)

\* One block whose body is plain prose: a header line, then at least one
\* non-empty line, none of them a header or a line that starts with a digit
ProseBlock(t) ==
    LET lines == SplitLines(t) IN
    /\ IsHeaderLine(lines[1])
    /\ Len(HeaderTitle(lines[1])) > 0
    /\ Len(ProseBody(t)) >= 1
    /\ \A i \in 2..Len(lines) :
        /\ ~IsHeaderLine(lines[i])
        /\ DigitRun(Trim(lines[i]), 1) = 0

\* The visible characters of a text
Visible(s) == SelectSeq(s, LAMBDA c : ~IsSpace(c))

\* C14: a block without numbered bullets whose body is one or several lines
\* of plain prose yields exactly one bullet, which holds the whole body.
C14_ProseBodyIsOneBullet ==
    (text.state = "parsed" /\ ProseBlock(text.input)) =>
        /\ Len(text.sections) = 1
        /\ Len(text.sections[1].bullets) = 1
        /\ Visible(text.sections[1].bullets[1])
               = Visible(Join(ProseBody(text.input), <<Space>>))

----------------------------------------------------------------------------
(* App.tsx, OptimizationAdvisor.tsx, MeasurementRange.tsx: the running views *)

MaxAppRecords == 2   \* longest dataset the application is loaded with
MaxRequests == 2     \* most requests sent to the provider in one run

MODEL_NAME == "gpt-4.1-mini"

\* Records of the datasets the application is loaded with: two complete
\* records and one whose output is null
AppPool ==
    << Experiment({"Co-Agent 1"}, {"Cure Time", "Elongation"}, Num(10), Num(20)),
       Experiment({"Co-Agent 1"}, {"Cure Time"}, Num(20), Num(30)),
       Experiment({"Co-Agent 1"}, {"Cure Time"}, Num(10), Null) >>

\* Datasets: up to MaxAppRecords pool records, listed in pool order
AppDatasets ==
    {LoadExperiments([i \in DOMAIN ix |-> AppPool[ix[i]]]) :
        ix \in SortedIndexSeqs(MaxAppRecords, Len(AppPool))}

\* inputKeys = first ? Object.keys(first.inputs) : []
inputKeys(exps) == IF Len(exps) = 0 THEN {} ELSE DOMAIN exps[1].inputs

\* experiments.find((e) => e.id === anchorId) finds a record
HasExperiment(id) == \E i \in 1..Len(experiments) : experiments[i].id = id

FindExperiment(id) ==
    experiments[CHOOSE i \in 1..Len(experiments) : experiments[i].id = id]

\* useMemo of heuristicSections: a raise of the builder is caught
heuristicSections ==
    IF ~HasExperiment(oa.anchorId) THEN <<>>
    ELSE LET built == buildAdvisorSections(FindExperiment(oa.anchorId), experiments)
         IN  IF built.threw THEN <<>> ELSE built.sections

\* useEffect on anchorExperiment: rebuild the prompt preview.  A raise inside
\* the effect is not caught: React unmounts the whole tree.
PreviewEffect(view) ==
    IF ~HasExperiment(view.anchorId) THEN [crashed |-> FALSE, view |-> view]
    ELSE Once(LAMBDA preview :
                 IF preview.prompt.threw
                 THEN [crashed |-> TRUE, view |-> view]
                 ELSE [crashed |-> FALSE,
                       view |-> [view EXCEPT
                                    !.llmPrompt = preview.prompt,
                                    !.llmTokenEstimate = preview.estimatedTokens]],
              getLlmAdvisorPromptPreview(FindExperiment(view.anchorId),
                                         experiments))

\* A mount of OptimizationAdvisor: useState initial values, then the effect
MountAdvisor ==
    PreviewEffect([NoAdvisorView EXCEPT
        !.mounted = TRUE,
        !.anchorId = IF Len(experiments) = 0 THEN "" ELSE experiments[1].id])

\* The requests in flight once the advisor component is unmounted: they are
\* not cancelled, but their continuation belongs to a component that is gone
Orphaned(inflight) == {[req EXCEPT !.live = FALSE] : req \in inflight}

\* parsedLlmSections, parsing whatever text is held
parsedLlmSectionsAlways == parseLlmSections(oa.llmText)

\* useMemo of parsedLlmSections
parsedLlmSections ==
    IF oa.llmStatus = "ready" THEN parseLlmSections(oa.llmText) ELSE <<>>

\* {hasOpenAiKey && <button onClick={handleAskLlm} ...>}, rendered without the test
AskOfferedAlways == TRUE

AskOffered == hasOpenAiKey

\* disabled={llmStatus === 'loading'}
AskDisabled == oa.llmStatus = "loading"

\* The block under the button: which of the status messages is rendered
Panel ==
    IF ~hasOpenAiKey THEN "disabled"
    ELSE IF oa.llmStatus = "ready"
         THEN IF Len(parsedLlmSections) > 0 THEN "cards" ELSE "raw text"
         ELSE oa.llmStatus

\* {llmError || 'Something went wrong fetching LLM suggestions.'}
ErrorShown ==
    IF oa.llmError # "" THEN oa.llmError
    ELSE "Something went wrong fetching LLM suggestions."

KeyMissingError ==
    [isError |-> TRUE,
     message |-> "VITE_OPENAI_API_KEY is not configured. Add it to your .env.local file to enable LLM insights."]

TypeErrorRaised == [isError |-> TRUE, message |-> "Cannot read properties of null"]

NoRequest == [id |-> 0, live |-> FALSE, anchorId |-> "", model |-> "",
              input |-> NoPrompt, max_output_tokens |-> 0]

\* getLlmAdvisorSummary up to the await: it rejects without a key or when the
\* prompt builder raises, and otherwise hands one request to the client
getLlmAdvisorSummary(anchor, dataset) ==
    IF ~hasOpenAiKey
    THEN [rejected |-> TRUE, err |-> KeyMissingError, request |-> NoRequest]
    ELSE LET prompt == buildLlmAdvisorPrompt(anchor, dataset) IN
         IF prompt.threw
         THEN [rejected |-> TRUE, err |-> TypeErrorRaised, request |-> NoRequest]
         ELSE [rejected |-> FALSE, err |-> TypeErrorRaised,
               request |-> [id |-> net.sent + 1, live |-> TRUE,
                            anchorId |-> anchor.id, model |-> MODEL_NAME,
                            input |-> prompt,
                            max_output_tokens |-> MAX_OUTPUT_TOKENS]]

\* The catch block of handleAskLlm that leaves the reply text in place
OnRejectedKeepsText(view, err) ==
    [view EXCEPT !.llmStatus = "error",
                 !.llmError = IF err.isError THEN err.message
                              ELSE "Failed to fetch LLM suggestions."]

\* The catch block of handleAskLlm
OnRejected(view, err) ==
    [view EXCEPT !.llmStatus = "error",
                 !.llmText = <<>>,
                 !.llmError = IF err.isError THEN err.message
                              ELSE "Failed to fetch LLM suggestions."]

\* 'Model returned an unexpected response shape.'
UnexpectedShape ==
    <<"M", "o", "d", "e", "l", " ", "r", "e", "t", "u", "r", "n", "e", "d",
      " ", "a", "n", " ", "u", "n", "e", "x", "p", "e", "c", "t", "e", "d",
      " ", "r", "e", "s", "p", "o", "n", "s", "e", " ", "s", "h", "a", "p",
      "e", ".">>

\* Texts the provider may reply with: '' and '### A\n1. x'
ReplyTexts ==
    {<<>>, <<"#", "#", "#", " ", "A", "\n", "1", ".", " ", "x">>}

\* output[0].content[0] of a response: it has a text, only a value, or neither
Responses ==
    {[shape |-> "text", body |-> t] : t \in ReplyTexts}
    \cup {[shape |-> "value", body |-> <<>>], [shape |-> "none", body |-> <<>>]}

\* String(firstContent?.text ?? firstContent?.value ?? 'Model returned ...')
ResponseText(response) ==
    IF response.shape \in {"text", "value"} THEN response.body
    ELSE UnexpectedShape

\* Values the awaited call may reject with
Failures ==
    {[isError |-> TRUE, message |-> "Connection error."],
     [isError |-> TRUE, message |-> ""],
     [isError |-> FALSE, message |-> ""]}

----------------------------------------------------------------------------
(* MeasurementRange.tsx: the component *)

datasetEmpty == Len(experiments) = 0 \/ outputKeys(experiments) = {}

\* outputKeys.includes('Tensile Strength') && !datasetEmpty
\*     ? 'Tensile Strength' : outputKeys[0] ?? ''
\* Object.keys order is not modelled: any key may be the first one.
defaultOutputs ==
    IF "Tensile Strength" \in outputKeys(experiments) /\ ~datasetEmpty
    THEN {"Tensile Strength"}
    ELSE IF outputKeys(experiments) = {} THEN {""}
    ELSE outputKeys(experiments)

ZeroStats == [min |-> Num(0), max |-> Num(0)]

\* OUTPUT_STATS[key] ?? { min: 0, max: 0 }
currentStats(key) ==
    IF key \in DOMAIN outputStats THEN outputStats[key] ELSE ZeroStats

\* Mutant of clampedMin: the typed minimum is handed on as it is
clampedMinAsTyped(view) == view.minValue

\* Math.min(Math.max(minValue, currentStats.min), currentStats.max)
clampedMin(view) ==
    MathMin(<<MathMax(<<view.minValue, currentStats(view.measurementKey).min>>),
              currentStats(view.measurementKey).max>>)

\* Math.max(Math.min(maxValue, currentStats.max), currentStats.min)
clampedMax(view) ==
    MathMax(<<MathMin(<<view.maxValue, currentStats(view.measurementKey).max>>),
              currentStats(view.measurementKey).min>>)

\* useState initial values of MeasurementRange
MountRange(defaultOutput) ==
    [mounted |-> TRUE, measurementKey |-> defaultOutput,
     minValue |-> currentStats(defaultOutput).min,
     maxValue |-> currentStats(defaultOutput).max]

\* Rendering the cards calls buildHistogramData for every visible input (all
\* of them: the datasets have fewer inputs than INITIAL_VISIBLE_INPUTS); a
\* raise during render is not caught: React unmounts the whole tree.
RangeRenderThrows(view) ==
    /\ ~datasetEmpty
    /\ \E inputKey \in inputKeys(experiments) :
        buildHistogramData(experiments, inputKey, view.measurementKey,
                           clampedMin(view), clampedMax(view),
                           DefaultBinCount).threw

\* Numbers typed into the min / max fields
RangeInputs == {Num(0), Num(25)}

----------------------------------------------------------------------------
(* The application: user events and the replies of the provider *)

idleCalls == <<stats, probe, advisor, hist, text, promptCall>>

InitApp ==
    /\ experiments \in AppDatasets
    /\ stats = NoStats
    /\ probe = NoProbe
    /\ advisor = NoAdvisor
    /\ hist = NoHist
    /\ text = NoText
    /\ promptCall = NoPromptCall
    /\ outputStats = computeOutputStats(experiments)
    /\ hasOpenAiKey \in BOOLEAN
    /\ mr = NoRangeView
    /\ net = NoNet
    /\ \E m \in {MountAdvisor} :
        /\ oa = (IF m.crashed THEN NoAdvisorView ELSE m.view)
        /\ activeTab = (IF m.crashed THEN "crashed" ELSE "advisor")

\* Mutant of SetAnchorId: the preview effect does not run again
SetAnchorIdKeepsPreview ==
    /\ activeTab = "advisor" /\ oa.mounted
    /\ HasExperiment(oa.anchorId)
    /\ \E i \in 1..Len(experiments) :
        /\ experiments[i].id # oa.anchorId
        /\ oa' = [oa EXCEPT !.anchorId = experiments[i].id]
    /\ UNCHANGED <<experiments, outputStats, hasOpenAiKey, activeTab, mr, net,
                   idleCalls>>

\* onChange of the anchor <select>: setAnchorId, then the preview effect
SetAnchorId ==
    /\ activeTab = "advisor" /\ oa.mounted
    /\ HasExperiment(oa.anchorId)
    /\ \E i \in 1..Len(experiments) :
        /\ experiments[i].id # oa.anchorId
        /\ \E m \in {PreviewEffect([oa EXCEPT !.anchorId = experiments[i].id])} :
            /\ oa' = (IF m.crashed THEN NoAdvisorView ELSE m.view)
            /\ activeTab' = (IF m.crashed THEN "crashed" ELSE activeTab)
            /\ net' = (IF m.crashed
                       THEN [net EXCEPT !.inflight = Orphaned(@)] ELSE net)
    /\ UNCHANGED <<experiments, outputStats, hasOpenAiKey, mr, idleCalls>>

\* onClick of the ask button: handleAskLlm up to the await
HandleAskLlm ==
    /\ activeTab = "advisor" /\ oa.mounted
    /\ HasExperiment(oa.anchorId)
    /\ AskOffered /\ ~AskDisabled
    /\ net.sent < MaxRequests
    /\ \E started \in {[oa EXCEPT !.llmStatus = "loading", !.llmError = ""]},
          call \in {getLlmAdvisorSummary(FindExperiment(oa.anchorId), experiments)} :
        IF call.rejected
        THEN /\ oa' = OnRejected(started, call.err)
             /\ net' = net
        ELSE /\ oa' = started
             /\ net' = [net EXCEPT !.inflight = @ \cup {call.request},
                                   !.sent = @ + 1]
    /\ UNCHANGED <<experiments, outputStats, hasOpenAiKey, activeTab, mr,
                   idleCalls>>

\* The awaited call resolves: handleAskLlm continues after the await.  The
\* setters of a component that is no longer mounted (req.live = FALSE)
\* change nothing.
ResolveRequest ==
    /\ \E req \in net.inflight, response \in Responses :
        IF req.live
        THEN /\ oa' = [oa EXCEPT !.llmText = ResponseText(response),
                                 !.llmStatus = "ready"]
             /\ net' = [net EXCEPT !.inflight = @ \ {req},
                                   !.shownFor = req.anchorId]
        ELSE /\ oa' = oa
             /\ net' = [net EXCEPT !.inflight = @ \ {req}]
    /\ UNCHANGED <<experiments, outputStats, hasOpenAiKey, activeTab, mr,
                   idleCalls>>

\* The awaited call rejects: the catch block of handleAskLlm
RejectRequest ==
    /\ \E req \in net.inflight, err \in Failures :
        /\ oa' = (IF req.live THEN OnRejected(oa, err) ELSE oa)
        /\ net' = [net EXCEPT !.inflight = @ \ {req}]
    /\ UNCHANGED <<experiments, outputStats, hasOpenAiKey, activeTab, mr,
                   idleCalls>>

\* Tabs onChange to the advisor tab: the other view is unmounted, a new
\* OptimizationAdvisor is mounted
OpenAdvisorTab ==
    /\ activeTab \in {"range", "scatter"}
    /\ \E m \in {MountAdvisor} :
        /\ oa' = (IF m.crashed THEN NoAdvisorView ELSE m.view)
        /\ activeTab' = (IF m.crashed THEN "crashed" ELSE "advisor")
    /\ mr' = NoRangeView
    /\ UNCHANGED <<experiments, outputStats, hasOpenAiKey, net, idleCalls>>

\* Tabs onChange to the range tab
OpenRangeTab ==
    /\ activeTab \in {"advisor", "scatter"}
    /\ \E key \in defaultOutputs :
        \E threw \in {RangeRenderThrows(MountRange(key))} :
            /\ mr' = (IF threw THEN NoRangeView ELSE MountRange(key))
            /\ activeTab' = (IF threw THEN "crashed" ELSE "range")
    /\ oa' = NoAdvisorView
    /\ net' = [net EXCEPT !.inflight = Orphaned(@)]
    /\ UNCHANGED <<experiments, outputStats, hasOpenAiKey, idleCalls>>

\* Tabs onChange to the scatter tab (the state of ScatterExplorer is not kept)
OpenScatterTab ==
    /\ activeTab \in {"advisor", "range"}
    /\ activeTab' = "scatter"
    /\ oa' = NoAdvisorView
    /\ mr' = NoRangeView
    /\ net' = [net EXCEPT !.inflight = Orphaned(@)]
    /\ UNCHANGED <<experiments, outputStats, hasOpenAiKey, idleCalls>>

\* After a change of the range view its cards are rendered again
Rerender(view) ==
    \E threw \in {RangeRenderThrows(view)} :
        /\ mr' = (IF threw THEN NoRangeView ELSE view)
        /\ activeTab' = (IF threw THEN "crashed" ELSE activeTab)

\* onChange of the measurement <select>, writing the table it only reads
SetMeasurementKeyWritesStats ==
    /\ activeTab = "range" /\ mr.mounted /\ ~datasetEmpty
    /\ \E nextKey \in outputKeys(experiments) \ {mr.measurementKey} :
        /\ Rerender([mr EXCEPT !.measurementKey = nextKey])
        /\ outputStats' = [outputStats EXCEPT
                              ![nextKey] = [min |-> mr.minValue,
                                            max |-> mr.maxValue]]
    /\ UNCHANGED <<experiments, hasOpenAiKey, oa, net, idleCalls>>

\* onChange of the measurement <select>
SetMeasurementKey ==
    /\ activeTab = "range" /\ mr.mounted /\ ~datasetEmpty
    /\ \E nextKey \in outputKeys(experiments) \ {mr.measurementKey} :
        Rerender(IF nextKey \in DOMAIN outputStats
                 THEN [mr EXCEPT !.measurementKey = nextKey,
                                 !.minValue = outputStats[nextKey].min,
                                 !.maxValue = outputStats[nextKey].max]
                 ELSE [mr EXCEPT !.measurementKey = nextKey])
    /\ UNCHANGED <<experiments, outputStats, hasOpenAiKey, oa, net, idleCalls>>

\* onChange of the min field (a text that is not a number changes nothing)
SetMinValue ==
    /\ activeTab = "range" /\ mr.mounted /\ ~datasetEmpty
    /\ \E next \in RangeInputs :
        /\ ~NumberIsNaN(next)
        /\ Rerender([mr EXCEPT !.minValue = next])
    /\ UNCHANGED <<experiments, outputStats, hasOpenAiKey, oa, net, idleCalls>>

\* onChange of the max field
SetMaxValue ==
    /\ activeTab = "range" /\ mr.mounted /\ ~datasetEmpty
    /\ \E next \in RangeInputs :
        /\ ~NumberIsNaN(next)
        /\ Rerender([mr EXCEPT !.maxValue = next])
    /\ UNCHANGED <<experiments, outputStats, hasOpenAiKey, oa, net, idleCalls>>

NextApp ==
    \/ SetAnchorId
    \/ HandleAskLlm
    \/ ResolveRequest
    \/ RejectRequest
    \/ OpenAdvisorTab
    \/ OpenRangeTab
    \/ OpenScatterTab
    \/ SetMeasurementKey
    \/ SetMinValue
    \/ SetMaxValue

SpecApp == InitApp /\ [][NextApp]_vars

----------------------------------------------------------------------------
(* Claims about the language-model request of the advisor view *)

\* Requests of the mounted advisor component that are still in flight
OwnInflight == {req \in net.inflight : req.live}

\* C15: without an API key no request is ever sent to the provider, whatever
\* the user does: the view shows the single "disabled" message, the request
\* status never leaves idle (no runtime failure is shown), and no request is
\* in flight or was ever sent.
C15_NoKeyNoRequest ==
    ~hasOpenAiKey =>
        /\ net.sent = 0
        /\ net.inflight = {}
        /\ oa.llmStatus = "idle"
        /\ oa.llmError = ""
        /\ Panel = "disabled"

\* Without a key the user has selected the second record as the anchor
C15_Witness ==
    /\ ~hasOpenAiKey
    /\ activeTab = "advisor"
    /\ Len(experiments) = 2
    /\ oa.anchorId = experiments[2].id
    /\ oa.llmTokenEstimate.isNull = FALSE

\* C16: a failure of the call is caught once and shown as a message: the
\* status is error, the message shown is not empty, the reply text held
\* before is cleared, and no request of the view is in flight (no retry).
C16_FailureShownOnce ==
    (oa.mounted /\ oa.llmStatus = "error") =>
        /\ ErrorShown # ""
        /\ oa.llmText = <<>>
        /\ OwnInflight = {}
        /\ Panel = "error"

\* A second request failed with an error without message after the first
\* one had put a reply on the page
C16_Witness ==
    /\ oa.mounted
    /\ oa.llmStatus = "error"
    /\ oa.llmError = ""
    /\ net.sent = 2
    /\ net.shownFor # ""

\* C17: at any moment at most one request to the provider is in flight,
\* whatever sequence of clicks and anchor selections the user performs.
C17_AtMostOneInFlight == Cardinality(net.inflight) <= 1

\* C18: a reply produced for a previously selected anchor is never shown in
\* the ready state as the ideas for the anchor selected now.
C18_ReadyReplyIsForCurrentAnchor ==
    (oa.mounted /\ oa.llmStatus = "ready") => net.shownFor = oa.anchorId

\* C19: the parsed section list is empty whenever the status is idle,
\* loading or error; it can be non-empty only when the status is ready.
C19_ParsedOnlyWhenReady ==
    oa.llmStatus # "ready" => parsedLlmSections = <<>>

\* A reply that parses to sections is still held while a new request loads
C19_Witness ==
    /\ oa.mounted
    /\ oa.llmStatus = "loading"
    /\ Len(parseLlmSections(oa.llmText)) > 0
    /\ parsedLlmSections = <<>>

\* C20: no operation writes shared data: every step of the application
\* leaves the record list and the per-output {min, max} table as they were
\* after the dataset was loaded.
C20_SharedDataIsReadOnly ==
    [][experiments' = experiments /\ outputStats' = outputStats]_vars

\* The range was edited away from the table's window, a request was sent and
\* answered, and the table still is what the loaded dataset gives
C20_Witness ==
    /\ mr.mounted
    /\ mr.measurementKey \in DOMAIN outputStats
    /\ mr.minValue # outputStats[mr.measurementKey].min
    /\ mr.maxValue # outputStats[mr.measurementKey].max
    /\ net.sent >= 1
    /\ net.inflight = {}
    /\ Len(experiments) = 2
    /\ outputStats = computeOutputStats(experiments)

----------------------------------------------------------------------------
(* Claims about the rules of buildAdvisorSections *)

Returned == advisor.state = "returned"

\* The messages of the bullets of the returned section with the given id
BulletMsgs(id) ==
    LET i == CHOOSE i \in 1..Len(advisor.sections) : advisor.sections[i].id = id
    IN  [j \in 1..Len(advisor.sections[i].bullets) |->
            advisor.sections[i].bullets[j].msg]

\* How many bullets of the section carry one of the given messages
MsgCount(id, msgs) ==
    Cardinality({j \in 1..Len(BulletMsgs(id)) : BulletMsgs(id)[j] \in msgs})

AnchorInput(f)  == Get(advisor.anchor.inputs, f)
AnchorOutput(f) == Get(advisor.anchor.outputs, f)

CostFields == {"Co-Agent 1", "Co-Agent 2", "Carbon Black High Grade"}

\* The bullets a cost rule can add
CostRuleMsgs(f) ==
    IF f = "Co-Agent 1"
    THEN {"Co-Agent 1 is relatively high", "Co-Agent 1 is on the low side"}
    ELSE IF f = "Co-Agent 2" THEN {"Co-Agent 2 is also high"}
    ELSE {"Carbon Black High Grade is near the top"}

\* C21: in a returned cost section each of the three rules (Co-Agent 1,
\* Co-Agent 2, Carbon Black High Grade) has added a bullet exactly when the
\* anchor has the field and its value is high (> 1.15 * mean); a low or
\* neutral value adds no cost bullet.
C21_CostRulesTestHighOnly ==
    Returned =>
        \A f \in CostFields :
            MsgCount("cost", CostRuleMsgs(f))
                = IF /\ AnchorInput(f) # Undefined
                     /\ high(AnchorInput(f), statsForField(experiments, f, "input"))
                  THEN 1 ELSE 0

\* The cure bullets the two rules are to give, in order
CureBulletsExpected ==
    (IF AnchorOutput("Cure Time") = Undefined THEN <<>>
     ELSE IF high(AnchorOutput("Cure Time"),
                  statsForField(experiments, "Cure Time", "output"))
     THEN <<"Cure time is slower than the dataset mean">>
     ELSE <<"Cure time is already at or better than the mean">>)
    \o
    (IF AnchorInput("Oven Temperature") = Undefined THEN <<>>
     ELSE IF high(AnchorInput("Oven Temperature"),
                  statsForField(experiments, "Oven Temperature", "input"))
     THEN <<"Oven temperature is at the upper part">>
     ELSE <<"Oven temperature is moderate">>)

\* C22: a call whose anchor has Cure Time or Oven Temperature yields the cure
\* section with exactly one bullet per field the anchor has (slow if high,
\* acceptable otherwise; high or moderate), Cure Time first, whatever the
\* dataset statistics; with both fields that is exactly two bullets.
C22_CureRulesAlwaysYield ==
    (Called /\ Len(CureBulletsExpected) > 0) =>
        /\ Returned
        /\ BulletMsgs("cure") = CureBulletsExpected

FieldFallbackMsg == "near the centre of the historical cloud"

Range(f) == {f[i] : i \in DOMAIN f}

CompressionMsgs ==
    {"Compression set is at or below the dataset mean",
     "Compression set is higher than typical"}

ElongationMsgs ==
    {"Elongation is in the upper half", "Elongation is lower than typical"}

\* The elongation rule is to add a bullet: the value is high or low
ElongationFires ==
    /\ AnchorOutput("Elongation") # Undefined
    /\ LET s == statsForField(experiments, "Elongation", "output")
       IN  high(AnchorOutput("Elongation"), s) \/ low(AnchorOutput("Elongation"), s)

\* The field bullets the rules and the fallback are to give, in order
FieldBulletsExpected ==
    LET compression ==
            IF AnchorOutput("Compression Set") = Undefined THEN <<>>
            ELSE IF JsLe(AnchorOutput("Compression Set"),
                         statsForField(experiments, "Compression Set", "output").mean)
            THEN <<"Compression set is at or below the dataset mean">>
            ELSE <<"Compression set is higher than typical">>
        s == statsForField(experiments, "Elongation", "output")
        elongation ==
            IF ~ElongationFires THEN <<>>
            ELSE IF high(AnchorOutput("Elongation"), s)
            THEN <<"Elongation is in the upper half">>
            ELSE <<"Elongation is lower than typical">>
    IN  IF Len(compression) + Len(elongation) = 0 THEN <<FieldFallbackMsg>>
        ELSE compression \o elongation

\* C23: every call yields the field section, in which the fallback bullet
\* appears exactly when the anchor lacks Compression Set and its Elongation is
\* missing or neither high nor low, and is then the only bullet; an anchor
\* with Compression Set has exactly one compression-set bullet (favourable
\* iff value <= mean) and no fallback.
C23_FieldFallbackIffNoRuleFired ==
    Called =>
        /\ Returned
        /\ BulletMsgs("field") = FieldBulletsExpected
        /\ (FieldFallbackMsg \in Range(BulletMsgs("field")))
               = (AnchorOutput("Compression Set") = Undefined /\ ~ElongationFires)
        /\ AnchorOutput("Compression Set") # Undefined =>
               MsgCount("field", CompressionMsgs) = 1

\* The bullets and the explanation lines a rule on the given field can add
RuleMsgs(f) ==
    IF f \in CostFields THEN CostRuleMsgs(f)
    ELSE IF f = "Cure Time"
    THEN {"Cure time is slower than the dataset mean",
          "Cure time is already at or better than the mean"}
    ELSE IF f = "Oven Temperature"
    THEN {"Oven temperature is at the upper part", "Oven temperature is moderate"}
    ELSE IF f = "Compression Set" THEN CompressionMsgs
    ELSE ElongationMsgs

FallbackMsgs == {"close to typical loadings", FieldFallbackMsg}

\* C24: in every returned section the number of explanation lines equals the
\* number of bullets, line j explaining bullet j; a rule whose field the
\* anchor lacks has added neither, a fallback exactly one of each.
C24_BulletsAndWhyParallel ==
    Returned =>
        \A i \in 1..Len(advisor.sections) :
            LET sec == advisor.sections[i]
                Lines(msgs)   == {j \in 1..Len(sec.why) : sec.why[j].msg \in msgs}
                Bullets(msgs) == {j \in 1..Len(sec.bullets) : sec.bullets[j].msg \in msgs}
            IN
            /\ Len(sec.why) = Len(sec.bullets)
            /\ \A j \in 1..Len(sec.bullets) : sec.why[j].msg = sec.bullets[j].msg
            /\ \A f \in InputFields \cup OutputFields :
                   Get(advisor.anchor.inputs @@ advisor.anchor.outputs, f) = Undefined
                       => Lines(RuleMsgs(f)) = {} /\ Bullets(RuleMsgs(f)) = {}
            /\ Cardinality(Lines(FallbackMsgs)) <= 1
            /\ Lines(FallbackMsgs) = Bullets(FallbackMsgs)

\* A returned call in which rules fired in every section: two cost bullets
\* or more, two cure bullets and two field bullets, each with its line
C24_Witness ==
    /\ Returned
    /\ Len(advisor.sections[1].bullets) >= 2
    /\ Len(advisor.sections[2].bullets) = 2
    /\ Len(advisor.sections[3].bullets) = 2
    /\ Len(advisor.sections[3].why) = 2
    /\ Len(experiments) = 2

----------------------------------------------------------------------------
(* Claims about the bins of buildHistogramData in the general case *)

CollectedValues == {CollectedValue(i) : i \in CollectedRecords}

\* The general case: the collected values are not all identical, binCount >= 1
GeneralCase ==
    /\ HistCalled
    /\ hist.binCount >= 1
    /\ Cardinality(CollectedValues) >= 2

\* Every collected value is a finite number
AllCollectedFinite == \A v \in CollectedValues : v.k = "num"

MinCollected == CHOOSE v \in CollectedValues : \A w \in CollectedValues : JsLe(v, w)
MaxCollected == CHOOSE v \in CollectedValues : \A w \in CollectedValues : JsGe(v, w)

StepExpected == JsDiv(JsSub(MaxCollected, MinCollected), Num(hist.binCount))

\* min(floor((v - minVal) / step), binCount - 1)
IndexExpected(v) ==
    LET raw == MathFloor(JsDiv(JsSub(v, MinCollected), StepExpected))
    IN  IF JsLt(Num(hist.binCount - 1), raw) THEN Num(hist.binCount - 1) ELSE raw

\* The interval of bin i (from 0): [minVal + i*step, minVal + (i+1)*step), the
\* last one closed at maxVal
IntervalStart(i) == JsAdd(MinCollected, JsMul(Num(i), StepExpected))
IntervalEnd(i) ==
    IF i = hist.binCount - 1 THEN MaxCollected
    ELSE JsAdd(IntervalStart(i), StepExpected)

\* C25: in the general case the builder returns exactly binCount bins in
\* ascending interval order, empty bins kept with count 0, and every collected
\* value v is counted in exactly one bin, that of index
\* min(floor((v - minVal)/step), binCount - 1), and lies inside the interval
\* of that bin.
C25_BinsPartitionCollectedValues ==
    GeneralCase =>
        /\ hist.state = "returned"
        /\ Len(hist.bins) = hist.binCount
        /\ \A n \in 1..Len(hist.bins) :
              /\ hist.bins[n].binLabel
                     = <<ToFixed(IntervalStart(n - 1), 1), ToFixed(IntervalEnd(n - 1), 1)>>
              /\ hist.bins[n].count
                     = Cardinality({i \in CollectedRecords :
                                       IndexExpected(CollectedValue(i)) = Num(n - 1)})
        /\ \A n \in 1..(Len(hist.bins) - 1) :
              JsLe(IntervalStart(n - 1), IntervalStart(n))
        /\ SumCounts(hist.bins) = Cardinality(CollectedRecords)
        /\ \A v \in CollectedValues :
              \E n \in 1..hist.binCount :
                  /\ IndexExpected(v) = Num(n - 1)
                  /\ JsLe(IntervalStart(n - 1), v)
                  /\ JsLe(v, IntervalEnd(n - 1))

\* C29: in the general case the first and the last bin are never empty (the
\* minimum collected value is counted in bin 0, the maximum in bin
\* binCount - 1) and no value gets an index below 0 or above binCount - 1.
C29_EndBinsNeverEmpty ==
    GeneralCase =>
        /\ hist.state = "returned"
        /\ Len(hist.bins) = hist.binCount
        /\ hist.bins[1].count >= 1
        /\ hist.bins[hist.binCount].count >= 1
        /\ IndexExpected(MinCollected) = Num(0)
        /\ IndexExpected(MaxCollected) = Num(hist.binCount - 1)
        /\ \A v \in CollectedValues :
              IndexInArray(BinIndex(v, MinCollected, StepExpected, hist.binCount),
                           hist.binCount)

----------------------------------------------------------------------------
(* buildLlmAdvisorPrompt applied to drawn anchors and datasets *)

MaxPromptRecords == 3   \* longest dataset handed to the prompt builder

\* Output values of the dataset records; Undefined: the record lacks the field
PromptDataVals == {Num(10), Num(20), Num(40), NaN, PosInf, Null, Undefined}

\* Records with the output "Cure Time" only; no record has "Elongation"
PromptPool ==
    {[inputs  |-> [f \in {"Co-Agent 1"} |-> Num(10)],
      outputs |-> [f \in (IF v = Undefined THEN {} ELSE {"Cure Time"}) |-> v]] :
        v \in PromptDataVals}

PromptAnchors ==
    {[id |-> "A"] @@ Experiment({"Co-Agent 1"}, outs, Num(10), v) :
        outs \in SUBSET {"Cure Time", "Elongation"}, v \in {Num(20), Null}}

InitPrompt ==
    /\ experiments \in {LoadExperiments(raw) : raw \in SeqsUpTo(PromptPool, MaxPromptRecords)}
    /\ stats = NoStats
    /\ probe = NoProbe
    /\ advisor = NoAdvisor
    /\ hist = NoHist
    /\ AppNotStarted

CallBuildLlmAdvisorPrompt ==
    /\ promptCall.state = "none"
    /\ \E anchor \in PromptAnchors :
        \E prompt \in {buildLlmAdvisorPrompt(anchor, experiments)} :
            promptCall' = [state |-> IF prompt.threw THEN "threw" ELSE "returned",
                           anchor |-> anchor, prompt |-> prompt]
    /\ UNCHANGED <<experiments, stats, probe, advisor, hist, text, outputStats,
                   hasOpenAiKey, activeTab, oa, mr, net>>

\* The caller drops the prompt; the builder keeps no state.
DropPrompt ==
    /\ promptCall.state # "none"
    /\ promptCall' = NoPromptCall
    /\ UNCHANGED <<experiments, stats, probe, advisor, hist, text, outputStats,
                   hasOpenAiKey, activeTab, oa, mr, net>>

NextPrompt == CallBuildLlmAdvisorPrompt \/ DropPrompt

SpecPrompt == InitPrompt /\ [][NextPrompt]_vars

----------------------------------------------------------------------------
(* Claims about the dataset summary of the prompt *)

\* The finite values of the output over the dataset, as exact rationals
FiniteOutputs(name) ==
    {i \in 1..Len(experiments) : Get(experiments[i].outputs, name).k = "num"}

OutputOf(i, name) == Get(experiments[i].outputs, name)

\* v is the element at index k (from 0) of the ascending finite values
IsAtAscendingIndex(v, name, k) ==
    /\ \E i \in FiniteOutputs(name) : OutputOf(i, name) = v
    /\ Cardinality({i \in FiniteOutputs(name) : JsLt(OutputOf(i, name), v)}) <= k
    /\ Cardinality({i \in FiniteOutputs(name) : JsLe(OutputOf(i, name), v)}) > k

\* The rational a toFixed(2) string stands for is the value rounded
FixedOf(v) == ToFixed(v, 2)

\* C26: a built prompt holds exactly one dataset summary line per output
\* field of the anchor: the 'no historical data available' line exactly when
\* no dataset record has a finite value for the field, otherwise the
\* mean/median/min/max of the finite dataset values, the median being the
\* element at index floor(n/2) of the ascending values, min <= median <= max.
C26_OneSummaryLinePerOutput ==
    promptCall.state = "returned" =>
        /\ DOMAIN promptCall.prompt.outputStatsLines = DOMAIN promptCall.anchor.outputs
        /\ \A name \in DOMAIN promptCall.anchor.outputs :
            LET line == promptCall.prompt.outputStatsLines[name]
                n    == Cardinality(FiniteOutputs(name))
            IN  IF n = 0
                THEN line.kind = "no historical data available"
                ELSE /\ line.kind = "stats"
                     /\ \E med \in {OutputOf(i, name) : i \in FiniteOutputs(name)} :
                           /\ IsAtAscendingIndex(med, name, n \div 2)
                           /\ line.median = FixedOf(med)
                     /\ \E lo \in {OutputOf(i, name) : i \in FiniteOutputs(name)} :
                           /\ IsAtAscendingIndex(lo, name, 0)
                           /\ line.min = FixedOf(lo)
                     /\ \E hi \in {OutputOf(i, name) : i \in FiniteOutputs(name)} :
                           /\ IsAtAscendingIndex(hi, name, n - 1)
                           /\ line.max = FixedOf(hi)
                     /\ line.min.n <= line.median.n
                     /\ line.median.n <= line.max.n
                     /\ line.mean
                            = FixedOf(JsDiv(ReduceSum(
                                  SelectSeq([i \in 1..Len(experiments) |->
                                                OutputOf(i, name)],
                                            LAMBDA v : v.k = "num"),
                                  1, Num(0)), Num(n)))

\* A prompt for an anchor with both outputs over three records of which two
\* hold finite Cure Time values (and one an infinite one): a numeric line
\* whose median is the larger value, and the 'no historical data' line
C26_Witness ==
    /\ promptCall.state = "returned"
    /\ DOMAIN promptCall.anchor.outputs = {"Cure Time", "Elongation"}
    /\ Len(experiments) = 3
    /\ Cardinality(FiniteOutputs("Cure Time")) = 2
    /\ \E i \in 1..3 : OutputOf(i, "Cure Time") = PosInf
    /\ promptCall.prompt.outputStatsLines["Cure Time"].kind = "stats"
    /\ promptCall.prompt.outputStatsLines["Cure Time"].median
           = promptCall.prompt.outputStatsLines["Cure Time"].max
    /\ promptCall.prompt.outputStatsLines["Cure Time"].min
           # promptCall.prompt.outputStatsLines["Cure Time"].max
    /\ promptCall.prompt.outputStatsLines["Elongation"].kind
           = "no historical data available"

----------------------------------------------------------------------------
(* Claims about the range of the measurement-range view *)

\* The view shows its controls and cards.  The dataset and the table of
\* bounds are the same in every state (C20), so datasetEmpty and currentStats
\* read the same values before and after a step.
ShownIn(tab, view) == tab = "range" /\ view.mounted /\ ~datasetEmpty

RangeShown == ShownIn(activeTab, mr)

\* The range the view hands to buildHistogramData is inside the bounds of the
\* selected output
InsideBounds(view) ==
    LET s == currentStats(view.measurementKey) IN
    /\ JsLe(s.min, clampedMin(view)) /\ JsLe(clampedMin(view), s.max)
    /\ JsLe(s.min, clampedMax(view)) /\ JsLe(clampedMax(view), s.max)

\* The range of the view is the full window of the selected output
FullWindow(view) ==
    /\ view.measurementKey \in DOMAIN outputStats
    /\ clampedMin(view) = outputStats[view.measurementKey].min
    /\ clampedMax(view) = outputStats[view.measurementKey].max

\* C27: whatever the user selects and types in the measurement-range view,
\* min <= clampedMin <= max and min <= clampedMax <= max for the precomputed
\* {min, max} of the selected output, before and after every step, and right
\* after a measurement is selected the range is the full [min, max] window
\* of that output.
C27_RangeClampedToBounds ==
    [][\E next \in {mr'}, tab \in {activeTab'} :
          /\ RangeShown => InsideBounds(mr)
          /\ ShownIn(tab, next) => InsideBounds(next)
          /\ (/\ RangeShown
              /\ ShownIn(tab, next)
              /\ next.measurementKey # mr.measurementKey) => FullWindow(next)]_vars

\* The user typed a minimum below and a maximum above the bounds of the
\* selected output: both are clamped to the bounds
C27_Witness ==
    /\ RangeShown
    /\ JsLt(mr.minValue, currentStats(mr.measurementKey).min)
    /\ JsGt(mr.maxValue, currentStats(mr.measurementKey).max)
    /\ clampedMin(mr) = currentStats(mr.measurementKey).min
    /\ clampedMax(mr) = currentStats(mr.measurementKey).max
    /\ Cardinality(outputKeys(experiments)) = 2

----------------------------------------------------------------------------
(* Claims about the request status of the advisor view *)

\* The steps of the status the claim allows
StatusSteps ==
    {<<"idle", "loading">>, <<"loading", "ready">>, <<"loading", "error">>,
     <<"ready", "loading">>, <<"error", "loading">>}

\* error implies the reply text is empty, ready implies no error message
StatusTextAgree(view) ==
    /\ view.llmStatus = "error" => view.llmText = <<>>
    /\ view.llmStatus = "ready" => view.llmError = ""

\* One step of the status of a mounted component as the claim has it: it
\* leaves loading only when the call has resolved or rejected
StatusStepAllowed(view, next, replied) ==
    /\ view.llmStatus # next.llmStatus =>
           <<view.llmStatus, next.llmStatus>> \in StatusSteps
    /\ (view.llmStatus = "loading" /\ next.llmStatus # "loading") => replied
    /\ StatusTextAgree(view)
    /\ StatusTextAgree(next)

\* C28: the request status goes idle -> loading -> (ready | error) ->
\* loading -> ... and never returns to idle: once a request has been made the
\* advisor view never shows idle again; the status leaves loading only when
\* the call has resolved or rejected (there is no timeout); in every state
\* error implies an empty reply text and ready an empty error message.
C28_StatusNeverBackToIdle ==
    [][/\ (oa.mounted /\ oa'.mounted) =>
              StatusStepAllowed(oa, oa',
                  Cardinality(net'.inflight) < Cardinality(net.inflight))
       /\ (oa'.mounted /\ net'.sent > 0) => oa'.llmStatus # "idle"]_vars

----------------------------------------------------------------------------
(* Claims about the prompt preview of the advisor view *)

\* The preview and the estimate the view shows are those of its anchor over
\* the whole dataset
PreviewIsCurrent(view) ==
    (view.mounted /\ HasExperiment(view.anchorId)) =>
        \E preview \in {getLlmAdvisorPromptPreview(FindExperiment(view.anchorId),
                                                   experiments)} :
            /\ ~preview.prompt.threw
            /\ view.llmPrompt = preview.prompt
            /\ view.llmPrompt.id = view.anchorId
            /\ view.llmPrompt.n = Len(experiments)
            /\ view.llmTokenEstimate = preview.estimatedTokens

\* The requests a step has started carry the preview shown when it started
StartedWithPreview(view, sentBefore, inflightAfter) ==
    \A req \in inflightAfter :
        req.id > sentBefore =>
            /\ view.llmPrompt.built
            /\ req.input = view.llmPrompt
            /\ req.anchorId = view.anchorId
            /\ req.model = MODEL_NAME

\* C30: after any sequence of anchor selections the prompt preview and the
\* token estimate shown are those computed for the currently selected anchor
\* over the whole dataset, and the prompt a request sends is the preview that
\* was shown for the anchor selected when the request was started.  (The
\* view of an initial state is that of a first mount, which a return to the
\* advisor tab reaches again.)
C30_PreviewIsForCurrentAnchor ==
    [][\E next \in {oa'}, inflightAfter \in {net'.inflight} :
          /\ PreviewIsCurrent(next)
          /\ StartedWithPreview(oa, net.sent, inflightAfter)]_vars

\* The second record was selected and a request for it is in flight, sent
\* with the preview on display
C30_Witness ==
    /\ oa.mounted
    /\ Len(experiments) = 2
    /\ oa.anchorId = experiments[2].id
    /\ oa.llmPrompt.id = experiments[2].id
    /\ oa.llmTokenEstimate.isNull = FALSE
    /\ \E req \in net.inflight :
          /\ req.live
          /\ req.anchorId = oa.anchorId
          /\ req.input = oa.llmPrompt

====
